---------------------------- MODULE Spec2Model ----------------------------
(***************************************************************************)
(* Memory-management core of SolixOS: the free-list kernel heap            *)
(* (src/kernel/mm.c), the aligned-allocation wrapper, the physical frame   *)
(* allocator and the slab/object-cache layer (src/kernel/slab.c).          *)
(*                                                                         *)
(* Memory is modelled byte by byte (little-endian 32-bit words, as on the  *)
(* i386 target), because the heap-block checksum is a sum over the header  *)
(* bytes and the slab free list is threaded through the object bytes.      *)
(***************************************************************************)
EXTENDS Integers, Sequences, FiniteSets, TLC

VARIABLES
    mem,                \* sparse byte memory: address -> 0..255 (bytes written so far)
    kernel_heap_start,  \* mm.c:5
    heap_head,          \* mm.c:40
    heap_tail,          \* mm.c:41
    mem_stats,          \* mm.c:19-25
    total_frames,       \* mm.c:11
    panic_msg,          \* "" while running; the message once panic() halted the system
    live,               \* caller side: pointers returned by kmalloc and not yet freed
    freed,              \* caller side: pointers freed since the last kmalloc
    aligned_live,       \* caller side: pointers returned by kmalloc_aligned, not yet freed
    misuse,             \* caller side: TRUE once a pointer was freed a second time
    last,               \* caller side: the last call, its argument and result
    frame_bitmap,       \* mm.c:10, word index -> set of the bit positions that are 1
    used_frames,        \* mm.c:12
    last_alloc_frame,   \* mm.c:13
    held,               \* caller side: frame addresses obtained one by one, not yet freed
    reserved,           \* caller side: frame addresses obtained in one run of calls
    frame_last,         \* caller side: the last frame call and its result
    frame_calls,        \* caller side: how many alloc_frame calls, or runs of them, were made
    current_directory,  \* mm.c:16, the address of the page directory (NULL before paging_init)
    dir_tables,         \* current_directory->tables: table index -> page table address
    dir_entries,        \* current_directory->entries: table index -> entry
    page_tables,        \* page table address -> (entry index -> entry written by map_page)
    tlb_log,            \* the entry writes and invlpg instructions of the last paging call, in order
    cachep,             \* the kmem_cache_t under test (slab.h:30-71)
    cache_chain,        \* slab.c:13, the addresses of the caches on the chain
    cache_chain_lock,   \* slab.c:14: the lock word, and whether a spin_lock is spinning on it
    other_cache,        \* a second kmem_cache_t, when a caller has created one
    kmalloc_caches,     \* slab.c:17, index 0..11 -> the size-class cache (addr NULL: none)
    objs,               \* caller side: object held -> slab whose in-use count it raised
    slabs_made,         \* caller side: the slabs cache growth has produced
    slab_last,          \* caller side: the last cache call and its result
    slab_scen,          \* caller side: progress of the fill-then-empty-one-slab scenario
    cache_calls,        \* caller side: how many kmem_cache_alloc calls were made
    scen,               \* caller side: progress of a "free A, then C, then B" sequence
    harness,            \* caller side: which set of calls the behaviour exercises
    in_progress         \* the call an interrupt has suspended: its position and its locals

heapVars == <<mem, kernel_heap_start, heap_head, heap_tail, mem_stats, total_frames, panic_msg>>
callerVars == <<live, freed, aligned_live, misuse, last, scen, harness, in_progress>>
pagingVars == <<current_directory, dir_tables, dir_entries, page_tables, tlb_log>>
frameVars == <<frame_bitmap, used_frames, last_alloc_frame, held, reserved, frame_last,
              frame_calls, pagingVars>>
slabVars == <<cachep, cache_chain, cache_chain_lock, other_cache, kmalloc_caches, objs, slabs_made, slab_last, slab_scen, cache_calls>>
vars == <<heapVars, callerVars, frameVars, slabVars>>

-----------------------------------------------------------------------------
(* Program constants *)

NULL == 0
PAGE_SIZE == 4096
KERNEL_HEAP_SIZE == 16777216
\* 0xDEADBEEF as a 32-bit word (see the word representation below)
HEAP_BLOCK_MAGIC == -559038737
\* 0xFEEDFACE
HEAP_BLOCK_FREE_MAGIC == -17958194
\* sizeof(heap_block_t): six 32-bit fields
HEAP_HDR == 24
\* sizeof(heap_block_t) - sizeof(uint32_t): the bytes the checksum covers
CHECKSUM_SPAN == 20
MIN_ALLOC == 16
\* sizeof(heap_block_t*) + sizeof(uint32_t): the two hidden words of an aligned block
ALIGN_HIDDEN == 8
\* SIZE_MAX, 0xFFFFFFFF
SIZE_MAX == -1

\* sizeof(void*) on the 32-bit target
WORD == 4
\* sizeof(struct slab): a list_head and eight 32-bit fields
SLAB_HDR == 40
\* offsets of the fields of struct slab
S_CACHE == 8
S_MEM == 12
S_INUSE == 16
S_FREELIST == 24
S_OBJECTS == 28
S_MAGIC == 32
S_END == 36
\* sizeof(kmem_cache_t): twenty-five 32-bit words
KMEM_CACHE_SIZE == 100
\* offsetof(kmem_cache_t, slabs_free)
C_SLABS_FREE == 28
\* the flag values of the second, later block of definitions in slab.h
SLAB_POISON == 8
SLAB_HWCACHE_ALIGN == 16
CACHE_LINE_SIZE == 64
SLAB_BATCH_COUNT == 16
\* PAGE_SIZE * 2
KMALLOC_MAX_SIZE == 8192
\* 0x5A5A5A5A
SLAB_RED_MAGIC1 == 1515870810
\* 0x5A
SLAB_POISON_BYTE == 90

\* bits in one word of the frame bitmap
BITS_PER_WORD == 32
\* the least memory size paging_init accepts, 4 MB
MIN_PAGING_MEM == 4194304
PAGE_ENTRIES == 1024
\* sizeof(page_table_t): PAGE_ENTRIES entries of 4 bytes
PAGE_TABLE_SIZE == 4096
\* sizeof(page_directory_t): the table pointers, the entries and physical_addr
PAGE_DIRECTORY_SIZE == 8196
\* the entries of kmalloc_caches[] and of sizes[] in slab_init
KMALLOC_CLASSES == 12
\* the index at which the search of kmalloc_slab gives up
KMALLOC_SLAB_LIMIT == 11
\* the pages paging_init maps onto themselves
IDENTITY_PAGES == 1024
\* the memory size mm_init hands to paging_init, 128 MB
MM_INIT_MEM == 134217728

(* Bounds of the model *)

\* kmalloc calls per behaviour (caps mem_stats.total_allocations)
MaxAllocs == 5

\* successful and failed kmalloc calls per behaviour when requests may fail
MaxExhaustAllocs == 3
MaxFailedAllocs == 2
\* the sizes asked for: zero, two ordinary ones, one the arena cannot hold,
\* 0xFFFFFFFC and 0xFFFFFFFF
ExhaustSizes == {0, 10, 996, KERNEL_HEAP_SIZE, -4, SIZE_MAX}

\* successful kmalloc calls per behaviour when the choice of block is observed
MaxFitAllocs == 4
\* kmalloc calls per behaviour when a call may be interrupted after its scan,
\* and the sizes asked for by the interrupted call and by the handler
MaxPreemptAllocs == 3
PreemptSizes == {10, 996}
\* a request that fills the arena so far that, after it and one minimum-size
\* block have been taken from an empty heap, the last block keeps 996 bytes
FillSize == KERNEL_HEAP_SIZE - HEAP_HDR - HEAP_HDR - HEAP_HDR - MIN_ALLOC - 996
\* the sizes asked for: one below the minimum; 996 less header and minimum
\* block and four bytes, the largest request that still splits a 996-byte
\* block; 996 less header and minimum block, the smallest that is handed the
\* block whole; and FillSize
FitSizes == {10, 996 - HEAP_HDR - MIN_ALLOC - 4, 996 - HEAP_HDR - MIN_ALLOC, FillSize}

\* &__end is fixed by the linker: the arena is taken to start at 0x12F0F4
HeapStarts == {1241332}
\* request sizes: one below the minimum, and one large enough to be split again
\* (a block of 996 bytes at 0x12F0F4 is followed by a header at 0x12F4F0, an
\* address with the same byte sum)
ReqSizes == {10, 996}

\* kmalloc calls per behaviour when the aligned wrapper is exercised
MaxAlignedAllocs == 2
\* kmalloc calls per behaviour when pointers are freed twice
MaxDoubleFreeAllocs == 3
\* the powers of two from 8 to 4096
Alignments == {8, 16, 32, 64, 128, 256, 512, 1024, 2048, 4096}
AlignedSizes == {100}
\* plain kmalloc requests made around the aligned ones
AlignedCtxSizes == {996}
\* successful kmalloc calls per behaviour when the aligned wrapper is asked for
\* any size and alignment
MaxAlignedRequests == 2
\* the sizes asked of kmalloc_aligned: zero, an ordinary one, 0xFFFFFFF0 and
\* 0xC0000000
AlignedRequestSizes == {0, 100, -16, -1073741824}
\* the alignments: zero, powers of two up to 2^30, and 3, 12 and 0xFFFFFFFF,
\* which are not powers of two
AlignedRequestAlignments == {0, 1, 3, 8, 12, 16, 4096, 1073741824, SIZE_MAX}

\* kmem_cache_alloc calls per behaviour
MaxCacheAllocs == 6
\* the caches under test, <<object size, flags>>: one, two and three objects per
\* slab; a cache-line-aligned cache; a poisoned cache
CacheConfigs == {<<3000, 0>>, <<2000, 0>>, <<1300, 0>>,
                 <<2026, SLAB_HWCACHE_ALIGN>>, <<1300, SLAB_POISON>>}
\* caches created per behaviour, and kmalloc calls (those of kmem_cache_create
\* included) per behaviour, when caches are created on demand
MaxCaches == 2
MaxCreateAllocs == 3
\* the object sizes asked of kmem_cache_create: zero, a small one, the largest
\* that fits an order-0 slab behind its header, the next one, one between that
\* and KMALLOC_MAX_SIZE, KMALLOC_MAX_SIZE, the next one, and 0xFFFFFFFF
CreateSizes == {0, 64, PAGE_SIZE - SLAB_HDR, PAGE_SIZE - SLAB_HDR + 1, 5000,
                KMALLOC_MAX_SIZE, KMALLOC_MAX_SIZE + 1, SIZE_MAX}
CreateFlags == {0, SLAB_HWCACHE_ALIGN}
\* kmalloc_slab calls per behaviour, and the sizes asked for
MaxKmallocSlabCalls == 2
SlabRequestSizes == {0, 1, 8, 9, 100, 4096, 4097, 8192, 8193, 16384}
\* kmem_cache_alloc calls per behaviour when two caches exist
MaxTwoCacheAllocs == 4
\* kmem_cache_alloc calls per behaviour when a call may be interrupted around
\* cache_grow, and the caches used: one and three objects per slab
MaxInterruptedAllocs == 3
InterruptedCacheConfigs == {<<3000, 0>>, <<1300, 0>>}
\* calls that take memory per behaviour over the life of a cache
\* (kmem_cache_create, kmem_cache_alloc, kmem_cache_alloc_bulk), and the caches used
MaxLifecycleCalls == 3
LifecycleConfigs == {<<3000, 0>>, <<1300, 0>>, <<2026, SLAB_HWCACHE_ALIGN>>,
                     <<1300, SLAB_POISON>>}
\* the numbers of objects asked of kmem_cache_alloc_bulk over the life of a cache
LifecycleBulkSizes == {2}
\* kmem_cache_alloc_bulk calls per behaviour, and the numbers of objects asked for
MaxBulkCalls == 2
\* a caller holding more objects than this frees some before the next bulk call
MaxHeldObjects == 2
BulkSizes == {2, 4}
\* what a caller takes from the heap before the cache is used: a request that
\* leaves 9000 bytes free behind the cache descriptor, room for one slab
SlabFillSizes == {KERNEL_HEAP_SIZE - HEAP_HDR - HEAP_HDR - HEAP_HDR - KMEM_CACHE_SIZE - 9000}
\* what a byte of memory that was never written may hold
JunkBytes == {0, SLAB_POISON_BYTE, 255}

\* kmalloc calls per behaviour (the three of paging_init included) when the
\* heap is verified between the calls
MaxVerifyAllocs == 3
\* the memory sizes these callers hand to paging_init: 4 MB and mm_init's
VerifyMemSizes == {MIN_PAGING_MEM, MM_INIT_MEM}

\* kmalloc calls per behaviour, the three of paging_init included, that are
\* made before the first map_page
MaxMapAllocs == 4
\* what a caller takes from the heap once paging_init(4 MB) has taken its
\* bitmap (128 bytes), directory (12300) and first page table (8200): a
\* request that leaves 9000 bytes free, room for one more page table
MapFillSizes == {KERNEL_HEAP_SIZE - HEAP_HDR - HEAP_HDR - HEAP_HDR - HEAP_HDR - HEAP_HDR
                    - 128 - 12300 - 8200 - 9000}
\* the virtual addresses mapped and unmapped: the first page (identity-mapped by
\* paging_init), and the first pages of the second and third 4 MB regions
MapVirtAddrs == {0, 4194304, 8388608}
\* the physical addresses and the flag words (present; present, writable and
\* user) handed to map_page
MapPhysAddrs == {20480, 2097152}
MapFlags == {1, 7}

\* frames a caller holds at one time, beside those it reserved in one run
MaxHeldFrames == 3
\* alloc_frame calls, or runs of them, per behaviour
MaxFrameCalls == 5
\* memory sizes handed to paging_init
MemSizes == {MIN_PAGING_MEM}
\* how many frames one run of alloc_frame calls reserves: all but two of 1024
ReservedFrames == 1022

\* memory sizes handed to paging_init by its callers: 2 MB, 4 MB and mm_init's
PagingMemSizes == {2097152, MIN_PAGING_MEM, MM_INIT_MEM}
\* what a caller takes from the heap before paging_init: requests that leave
\* 100, 5000 and 15000 bytes of the arena free
HeapFillSizes == {KERNEL_HEAP_SIZE - HEAP_HDR - HEAP_HDR - 100,
                  KERNEL_HEAP_SIZE - HEAP_HDR - HEAP_HDR - 5000,
                  KERNEL_HEAP_SIZE - HEAP_HDR - HEAP_HDR - 15000}
\* frame addresses handed to free_frame whatever their state
AnyFrames == {0, PAGE_SIZE, 31 * PAGE_SIZE, 32 * PAGE_SIZE, 1023 * PAGE_SIZE}

-----------------------------------------------------------------------------
(* 32-bit arithmetic and byte memory *)

\* A 32-bit word w is held as the integer of its two's-complement reading
\* (w - 2^32 when w >= 2^31): addresses and sizes below 2^31 are themselves.
\* uint32_t addition, computed on 16-bit halves so that it wraps modulo 2^32
Add32(a, b) ==
    LET lo == (a % 65536) + (b % 65536)
        hi == (a \div 65536) + (b \div 65536) + (lo \div 65536)
    IN (((hi + 32768) % 65536) - 32768) * 65536 + (lo % 65536)

\* uint32_t subtraction, on 16-bit halves with the borrow carried upwards
Sub32(a, b) ==
    LET lo == (a % 65536) - (b % 65536)
        hi == (a \div 65536) - (b \div 65536) + (lo \div 65536)
    IN (((hi + 32768) % 65536) - 32768) * 65536 + (lo % 65536)

\* unsigned comparison of two words
ULt(a, b) == IF (a >= 0) = (b >= 0) THEN a < b ELSE b < 0
UGt(a, b) == ULt(b, a)
UGe(a, b) == ~ULt(a, b)

\* x & ~(a - 1) for a power of two a
AndNotMask(x, a) == x - (x % a)

\* unsigned a % b, for a word a < 2^31 and b > 0
UMod(a, b) == a % b

Rd32(m, a) ==
    m[a] + 256 * m[a + 1] + 65536 * m[a + 2]
         + 16777216 * (IF m[a + 3] >= 128 THEN m[a + 3] - 256 ELSE m[a + 3])

ByteOf(v, i) == (v \div (IF i = 0 THEN 1 ELSE IF i = 1 THEN 256 ELSE IF i = 2 THEN 65536 ELSE 16777216)) % 256

\* a little-endian 32-bit store (f @@ g keeps f where both are defined)
Wr32(m, a, v) ==
    (a :> ByteOf(v, 0)) @@ (a + 1 :> ByteOf(v, 1)) @@ (a + 2 :> ByteOf(v, 2))
        @@ (a + 3 :> ByteOf(v, 3)) @@ m

(* heap_block_t field access *)
B_magic(m, b) == Rd32(m, b)
B_size(m, b) == Rd32(m, b + 4)
B_used(m, b) == Rd32(m, b + 8)
B_next(m, b) == Rd32(m, b + 12)
B_prev(m, b) == Rd32(m, b + 16)
B_checksum(m, b) == Rd32(m, b + 20)

Set_magic(m, b, v) == Wr32(m, b, v)
Set_size(m, b, v) == Wr32(m, b + 4, v)
Set_used(m, b, v) == Wr32(m, b + 8, v)
Set_next(m, b, v) == Wr32(m, b + 12, v)
Set_prev(m, b, v) == Wr32(m, b + 16, v)
Set_checksum(m, b, v) == Wr32(m, b + 20, v)

RECURSIVE SumBytes(_, _, _)
SumBytes(m, a, n) == IF n = 0 THEN 0 ELSE m[a] + SumBytes(m, a + 1, n - 1)

calculate_block_checksum(m, block) == SumBytes(m, block, CHECKSUM_SPAN)

verify_block_integrity(m, block) ==
    /\ block # NULL
    /\ B_magic(m, block) = (IF B_used(m, block) # 0 THEN HEAP_BLOCK_MAGIC ELSE HEAP_BLOCK_FREE_MAGIC)
    /\ B_checksum(m, block) = calculate_block_checksum(m, block)

update_block_checksum(m, block) ==
    IF block # NULL THEN Set_checksum(m, block, calculate_block_checksum(m, block)) ELSE m

-----------------------------------------------------------------------------
(* The free-list heap.  A heap state h is the record                        *)
(* [mem, head, tail, stats, panic, ret]; every operation maps a heap state  *)
(* to the heap state it leaves, ret being the value the C function returns  *)
(* and panic the message of the panic() that halted it ("" if none).        *)

HeapState == [mem |-> mem, head |-> heap_head, tail |-> heap_tail,
              stats |-> mem_stats, panic |-> panic_msg, ret |-> NULL,
              lock |-> cache_chain_lock]

\* SPIN_LOCK_UNLOCKED
Unlocked == [lock |-> 0, spin |-> FALSE]

spin_unlock_skipped(h) == h

\* the loop ends at once on a free lock; on a held lock it never ends when
\* nothing else runs (spin)
spin_lock(h) ==
    IF h.lock.lock # 0 THEN [h EXCEPT !.lock.spin = TRUE] ELSE [h EXCEPT !.lock.lock = 1]

spin_unlock(h) == [h EXCEPT !.lock.lock = 0]

ZeroStats == [total_allocations |-> 0, total_frees |-> 0, peak_usage |-> 0,
              current_usage |-> 0, fragmentation_count |-> 0]

\* an empty byte memory: nothing written yet
NoMem == [x \in {} |-> 0]

heap_init(start) ==
    LET m1 == Set_magic(NoMem, start, HEAP_BLOCK_FREE_MAGIC)
        m2 == Set_size(m1, start, KERNEL_HEAP_SIZE - HEAP_HDR)
        m3 == Set_used(m2, start, 0)
        m4 == Set_next(m3, start, NULL)
        m5 == Set_prev(m4, start, NULL)
        m6 == update_block_checksum(m5, start)
    IN [mem |-> m6, head |-> start, tail |-> start, stats |-> ZeroStats,
        panic |-> "", ret |-> NULL, lock |-> Unlocked]

\* size = (size + 3) & ~3; if (size < 16) size = 16;   on a 32-bit size_t
RoundSize(req) ==
    LET s == AndNotMask(Add32(req, 3), 4)
    IN IF ULt(s, MIN_ALLOC) THEN MIN_ALLOC ELSE s

\* a scan that settles for the first free block that is large enough
RECURSIVE FindFirstFit(_, _, _, _, _)
FindFirstFit(m, block, size, best_fit, best_fit_size) ==
    IF block = NULL THEN best_fit
    ELSE IF B_used(m, block) = 0 /\ UGe(B_size(m, block), size)
         THEN block
         ELSE FindFirstFit(m, B_next(m, block), size, best_fit, best_fit_size)

\* the best-fit scan of kmalloc
RECURSIVE FindBestFit(_, _, _, _, _)
FindBestFit(m, block, size, best_fit, best_fit_size) ==
    IF block = NULL THEN best_fit
    ELSE IF B_used(m, block) = 0 /\ UGe(B_size(m, block), size) /\ ULt(B_size(m, block), best_fit_size)
         THEN IF B_size(m, block) = size
              THEN block
              ELSE FindBestFit(m, B_next(m, block), size, block, B_size(m, block))
         ELSE FindBestFit(m, B_next(m, block), size, best_fit, best_fit_size)

\* the chosen block is handed out whole
split_block_never(h, block, size) == h

\* "Split block if necessary"
split_block(h, block, size) ==
    IF UGt(B_size(h.mem, block), Add32(Add32(size, HEAP_HDR), MIN_ALLOC))
    THEN LET new_block == Add32(Add32(block, HEAP_HDR), size)
             old_next == B_next(h.mem, block)
             m1 == Set_magic(h.mem, new_block, HEAP_BLOCK_FREE_MAGIC)
             m2 == Set_size(m1, new_block, Sub32(Sub32(B_size(h.mem, block), size), HEAP_HDR))
             m3 == Set_used(m2, new_block, 0)
             m4 == Set_next(m3, new_block, old_next)
             m5 == Set_prev(m4, new_block, block)
             m6 == update_block_checksum(m5, new_block)
             \* block->next->prev = new_block: the neighbour's checksum is not refreshed
             m7 == IF old_next # NULL THEN Set_prev(m6, old_next, new_block) ELSE m6
             m8 == Set_size(m7, block, size)
             m9 == Set_next(m8, block, new_block)
         IN [h EXCEPT !.mem = update_block_checksum(m9, block),
                      !.tail = IF old_next # NULL THEN h.tail ELSE new_block]
    ELSE h

mark_used_stale_checksum(m, block) ==
    Set_magic(Set_used(m, block, 1), block, HEAP_BLOCK_MAGIC)

\* "Mark block as used"
mark_used(m, block) ==
    update_block_checksum(Set_magic(Set_used(m, block, 1), block, HEAP_BLOCK_MAGIC), block)

kmalloc_stats(st, size) ==
    LET cu == Add32(st.current_usage, size)
    IN [st EXCEPT !.total_allocations = Add32(@, 1),
                  !.current_usage = cu,
                  !.peak_usage = IF UGt(cu, @) THEN cu ELSE @]

\* kmalloc from the end of the scan, which has left best_fit for the rounded size
kmalloc_take(h, size, best_fit) ==
    IF best_fit = NULL
    THEN [h EXCEPT !.stats.fragmentation_count = Add32(@, 1), !.ret = NULL]
    ELSE IF ~verify_block_integrity(h.mem, best_fit)
    THEN [h EXCEPT !.panic = "Heap corruption detected in kmalloc", !.ret = NULL]
    ELSE LET s == split_block(h, best_fit, size)
         IN [s EXCEPT !.mem = mark_used(s.mem, best_fit),
                      !.stats = kmalloc_stats(s.stats, size),
                      !.ret = Add32(best_fit, HEAP_HDR)]

kmalloc(h, req) ==
    IF req = 0 THEN [h EXCEPT !.ret = NULL]
    ELSE kmalloc_take(h, RoundSize(req),
                      FindBestFit(h.mem, h.head, RoundSize(req), NULL, SIZE_MAX))

\* the scan of a call that is resumed is made again
kmalloc_resume_rescanned(h, size, best_fit) ==
    kmalloc_take(h, size, FindBestFit(h.mem, h.head, size, NULL, SIZE_MAX))

\* a call that was interrupted after its scan goes on with the best_fit and
\* the size it holds in its frame
kmalloc_resume(h, size, best_fit) == kmalloc_take(h, size, best_fit)

kfree_checks_no_used(m, block) ==
    IF ~verify_block_integrity(m, block) THEN "Heap corruption detected in kfree" ELSE ""

\* the two checks that open kfree: the panic message, or "" to go on
kfree_checks(m, block) ==
    IF ~verify_block_integrity(m, block) THEN "Heap corruption detected in kfree"
    ELSE IF B_used(m, block) = 0 THEN "Double free detected"
    ELSE ""

\* "Mark block as free"
mark_free(m, block) ==
    update_block_checksum(Set_magic(Set_used(m, block, 0), block, HEAP_BLOCK_FREE_MAGIC), block)

absorbed_size_no_header(own, other) == Add32(own, other)

\* size absorbed when a block swallows its free neighbour
absorbed_size(own, other) == Add32(Add32(own, other), HEAP_HDR)

\* "Immediate coalescing with next block if free"
coalesce_next(h, block) ==
    LET nxt == B_next(h.mem, block)
    IN IF nxt # NULL /\ B_used(h.mem, nxt) = 0 /\ verify_block_integrity(h.mem, nxt)
       THEN LET m1 == Set_size(h.mem, block, absorbed_size(B_size(h.mem, block), B_size(h.mem, nxt)))
                nn == B_next(m1, nxt)
                m2 == Set_next(m1, block, nn)
                \* block->next->prev = block: again without a checksum refresh
                m3 == IF nn # NULL THEN Set_prev(m2, nn, block) ELSE m2
            IN [h EXCEPT !.mem = update_block_checksum(m3, block),
                         !.tail = IF nn # NULL THEN h.tail ELSE block]
       ELSE h

coalesce_prev_skipped(h, block) == h

\* "Immediate coalescing with previous block if free"
coalesce_prev(h, block) ==
    LET prv == B_prev(h.mem, block)
    IN IF prv # NULL /\ B_used(h.mem, prv) = 0 /\ verify_block_integrity(h.mem, prv)
       THEN LET m1 == Set_size(h.mem, prv, absorbed_size(B_size(h.mem, prv), B_size(h.mem, block)))
                nn == B_next(m1, block)
                m2 == Set_next(m1, prv, nn)
                m3 == IF nn # NULL THEN Set_prev(m2, nn, prv) ELSE m2
            IN [h EXCEPT !.mem = update_block_checksum(m3, prv),
                         !.tail = IF nn # NULL THEN h.tail ELSE prv]
       ELSE h

kfree(h, ptr) ==
    IF ptr = NULL THEN h
    ELSE LET block == Sub32(ptr, HEAP_HDR)
             why == kfree_checks(h.mem, block)
         IN IF why # "" THEN [h EXCEPT !.panic = why]
            ELSE LET freed_size == B_size(h.mem, block)
                     h1 == [h EXCEPT !.mem = mark_free(h.mem, block)]
                     h2 == coalesce_next(h1, block)
                     h3 == coalesce_prev(h2, block)
                 IN [h3 EXCEPT !.stats.total_frees = Add32(@, 1),
                               !.stats.current_usage = Sub32(@, freed_size)]

RECURSIVE VerifyWalk(_, _, _, _)
VerifyWalk(m, block, block_count, tf) ==
    IF block = NULL THEN TRUE
    ELSE IF ~verify_block_integrity(m, block) THEN FALSE
    ELSE IF UGt(block_count, tf) THEN FALSE
    ELSE VerifyWalk(m, B_next(m, block), Add32(block_count, 1), tf)

verify_heap_integrity(h, tf) == VerifyWalk(h.mem, h.head, 0, tf)

(* The aligned-allocation wrapper *)

\* a & b == 0 on two words, bit by bit
RECURSIVE NoCommonBit(_, _, _)
NoCommonBit(a, b, bits) ==
    \/ bits = 0
    \/ /\ (a % 2) * (b % 2) = 0
       /\ NoCommonBit(a \div 2, b \div 2, bits - 1)

aligned_address_unrounded(raw_ptr, alignment) == Add32(raw_ptr, ALIGN_HIDDEN)

\* (raw + hidden + alignment - 1) & ~(alignment - 1)
aligned_address(raw_ptr, alignment) ==
    AndNotMask(Add32(Add32(raw_ptr, ALIGN_HIDDEN), Sub32(alignment, 1)), alignment)

\* the two hidden words below the aligned address: original pointer, alignment
store_hidden(r, aligned_addr, alignment) ==
    [r EXCEPT !.mem = Wr32(Wr32(r.mem, Sub32(aligned_addr, 4), Sub32(r.ret, HEAP_HDR)),
                           Sub32(aligned_addr, 8), alignment),
              !.ret = aligned_addr]

\* kmalloc_aligned once kmalloc has answered with r
aligned_from_raw(r, alignment) ==
    IF r.panic # "" \/ r.ret = NULL THEN r
    ELSE store_hidden(r, aligned_address(r.ret, alignment), alignment)

\* the wrapper without its test for a size of zero
kmalloc_aligned_any_size(h, size, alignment) ==
    IF alignment = 0 THEN [h EXCEPT !.ret = NULL]
    ELSE IF ~NoCommonBit(alignment, Sub32(alignment, 1), 32) THEN [h EXCEPT !.ret = NULL]
    ELSE aligned_from_raw(kmalloc(h, Add32(Add32(size, Sub32(alignment, 1)), ALIGN_HIDDEN)),
                          alignment)

kmalloc_aligned(h, size, alignment) ==
    IF size = 0 \/ alignment = 0 THEN [h EXCEPT !.ret = NULL]
    ELSE IF ~NoCommonBit(alignment, Sub32(alignment, 1), 32) THEN [h EXCEPT !.ret = NULL]
    ELSE aligned_from_raw(kmalloc(h, Add32(Add32(size, Sub32(alignment, 1)), ALIGN_HIDDEN)),
                          alignment)

kfree_aligned(h, ptr) ==
    IF ptr = NULL THEN h
    ELSE LET original_ptr == Rd32(h.mem, Sub32(ptr, 4))
             alignment == Rd32(h.mem, Sub32(ptr, 8))
         IN IF UMod(ptr, alignment) # 0
            THEN [h EXCEPT !.panic = "Invalid aligned free - address not properly aligned"]
            ELSE kfree(h, Add32(original_ptr, HEAP_HDR))

(* The SLAB allocator.  A state k of the layer is [h, c, chain, ret]: the heap  *)
(* state, the cache descriptor, the global cache chain and the C return value. *)
(* The three slab lists of the descriptor are sequences of slab addresses.     *)

\* the list helpers slab.c calls (struct list_head, front insertion)
list_empty(l) == l = <<>>
list_first_entry(l) == Head(l)
list_add(x, l) == <<x>> \o l
list_remove(l, x) == SelectSeq(l, LAMBDA y : y # x)
\* list_del(&slabp->list): the slab leaves whichever list holds it
list_del(c, slabp) ==
    [c EXCEPT !.slabs_full = list_remove(@, slabp),
              !.slabs_partial = list_remove(@, slabp),
              !.slabs_free = list_remove(@, slabp)]

\* flags & bit, for a one-bit mask
HasFlag(flags, bit) == (flags \div bit) % 2 = 1

ZeroCacheStats == [allocated |-> 0, freed |-> 0, errors |-> 0, max_active |-> 0, active |-> 0]

\* the descriptor right after memset(cachep, 0, sizeof(kmem_cache_t))
ZeroCache(addr) ==
    [addr |-> addr, object_size |-> 0, align |-> 0, flags |-> 0, num |-> 0,
     batchcount |-> 0, limit |-> 0, colour_next |-> 0, colour_off |-> 0, colour |-> 0,
     gfporder |-> 0, stats |-> ZeroCacheStats,
     slabs_full |-> <<>>, slabs_partial |-> <<>>, slabs_free |-> <<>>]

\* 1 << order
RECURSIVE ShiftLeftOne(_)
ShiftLeftOne(order) == IF order = 0 THEN 1 ELSE 2 * ShiftLeftOne(order - 1)

calculate_objects(order, size, align, flags) ==
    IF HasFlag(flags, SLAB_HWCACHE_ALIGN)
          /\ ((PAGE_SIZE * ShiftLeftOne(order) - SLAB_HDR) % size) >= WORD
    THEN ((PAGE_SIZE * ShiftLeftOne(order) - SLAB_HDR) \div size) + 1
    ELSE (PAGE_SIZE * ShiftLeftOne(order) - SLAB_HDR) \div size

\* calculate_colours: the descriptor with colour and colour_off set
calculate_colours(c) ==
    IF HasFlag(c.flags, SLAB_HWCACHE_ALIGN) /\ (c.object_size % CACHE_LINE_SIZE) # 0
    THEN [c EXCEPT !.colour = CACHE_LINE_SIZE \div (c.object_size % CACHE_LINE_SIZE),
                   !.colour_off = c.object_size % CACHE_LINE_SIZE]
    ELSE [c EXCEPT !.colour = 0]

\* kmem_cache_create from the point where kmalloc has answered with r
cache_from_block(r, chain, size, align, flags) ==
    IF r.panic # "" \/ r.ret = NULL
    THEN [h |-> r, c |-> ZeroCache(NULL), chain |-> chain, ret |-> NULL]
    ELSE IF calculate_objects(0, size, align, flags) = 0
    THEN [h |-> kfree(r, r.ret), c |-> ZeroCache(NULL), chain |-> chain, ret |-> NULL]
    ELSE [h |-> spin_unlock(spin_lock(r)),
          c |-> calculate_colours(
                  [ZeroCache(r.ret) EXCEPT !.object_size = size, !.align = align,
                                           !.flags = flags,
                                           !.num = calculate_objects(0, size, align, flags),
                                           !.batchcount = SLAB_BATCH_COUNT,
                                           !.limit = calculate_objects(0, size, align, flags) * 2]),
          chain |-> list_add(r.ret, chain),
          ret |-> r.ret]

\* with a name that is not NULL, and neither constructor nor destructor
kmem_cache_create(h, chain, size, align, flags) ==
    IF size = 0 \/ UGt(size, KMALLOC_MAX_SIZE)
    THEN [h |-> h, c |-> ZeroCache(NULL), chain |-> chain, ret |-> NULL]
    ELSE cache_from_block(kmalloc(h, KMEM_CACHE_SIZE), chain, size, align, flags)

\* memset(a, byte, n)
Fill(m, a, n, byte) ==
    [x \in (DOMAIN m) \cup (a .. (a + n - 1)) |->
        IF x >= a /\ x < a + n THEN byte ELSE m[x]]

\* the header fields alloc_slab sets
slab_header(m, slabp, c) ==
    Wr32(Wr32(Wr32(Wr32(Wr32(Wr32(Wr32(m,
        slabp + S_CACHE, c.addr),
        slabp + S_INUSE, 0),
        slabp + S_OBJECTS, c.num),
        slabp + S_MAGIC, SLAB_RED_MAGIC1),
        slabp + S_MEM, slabp + SLAB_HDR + c.colour_off),
        slabp + S_END, slabp + PAGE_SIZE * ShiftLeftOne(c.gfporder)),
        slabp + S_FREELIST, slabp + SLAB_HDR + c.colour_off)

\* "Set up free objects": the loop stores, for i = 0 .. num-2, the address of
\* slot i+1 in the first word of slot i, and then NULL in the first word of
\* slot num-1; each store may overwrite bytes of the one before it, so the
\* byte left at x is that of the last slot starting at or below x
freelist_links(m, objp, num, size) ==
    LET slot(x) == IF (x - objp) \div size > num - 1 THEN num - 1 ELSE (x - objp) \div size
        link(i) == IF i = num - 1 THEN NULL ELSE objp + (i + 1) * size
        written == {x \in objp .. (objp + (num - 1) * size + WORD - 1) :
                       x - (objp + slot(x) * size) < WORD}
    IN [x \in (DOMAIN m) \cup written |->
           IF x \in written
           THEN ByteOf(link(slot(x)), x - (objp + slot(x) * size))
           ELSE m[x]]

\* "Poison objects if debugging enabled": runs after the free list was built
poison_objects(m, c, objp) ==
    IF HasFlag(c.flags, SLAB_POISON)
    THEN Fill(m, objp, c.num * c.object_size, SLAB_POISON_BYTE)
    ELSE m

init_slab(m, slabp, c) ==
    poison_objects(
        freelist_links(slab_header(m, slabp, c),
                       slabp + SLAB_HDR + c.colour_off, c.num, c.object_size),
        c, slabp + SLAB_HDR + c.colour_off)

\* alloc_slab from the point where kmalloc_aligned has answered with r
slab_from_pages(k, r) ==
    IF r.panic # "" \/ r.ret = NULL THEN [k EXCEPT !.h = r, !.ret = NULL]
    ELSE [k EXCEPT !.h = [r EXCEPT !.mem = init_slab(r.mem, r.ret, k.c)],
                   !.c.stats.allocated = Add32(@, k.c.num),
                   !.ret = r.ret]

alloc_slab(k) ==
    slab_from_pages(k, kmalloc_aligned(k.h, PAGE_SIZE * ShiftLeftOne(k.c.gfporder), PAGE_SIZE))

\* "Add to appropriate list"
list_of_new_slab(c, slabp, inuse) ==
    IF inuse = 0 THEN [c EXCEPT !.slabs_free = list_add(slabp, @)]
    ELSE IF inuse = c.num THEN [c EXCEPT !.slabs_full = list_add(slabp, @)]
    ELSE [c EXCEPT !.slabs_partial = list_add(slabp, @)]

\* cache_grow from the point where alloc_slab has answered with a
grow_with(a) ==
    IF a.h.panic # "" THEN a
    ELSE IF a.ret = NULL THEN [a EXCEPT !.ret = -1]
    ELSE [a EXCEPT !.h = spin_unlock(spin_lock(@)),
                   !.c = list_of_new_slab(a.c, a.ret, Rd32(a.h.mem, a.ret + S_INUSE)),
                   !.ret = 0]

cache_grow(k) == grow_with(alloc_slab(k))

\* the address lies in the heap arena
InArena(a) ==
    UGe(a, kernel_heap_start) /\ ULt(a, Add32(kernel_heap_start, KERNEL_HEAP_SIZE))

\* a 32-bit load from arena memory; a byte never written holds junk
Load8(m, a, junk) == IF a \in DOMAIN m THEN m[a] ELSE junk
Load32(m, a, junk) ==
    Load8(m, a, junk) + 256 * Load8(m, a + 1, junk) + 65536 * Load8(m, a + 2, junk)
        + 16777216 * (IF Load8(m, a + 3, junk) >= 128 THEN Load8(m, a + 3, junk) - 256
                      ELSE Load8(m, a + 3, junk))

\* a 32-bit load through a pointer that may point anywhere: outside the arena
\* it reads junk, unless the access raises an exception
Deref32(m, a, junk) == IF InArena(a) THEN Load32(m, a, junk) ELSE Load32(NoMem, 0, junk)

\* "Move slab to appropriate list" of kmem_cache_alloc
list_after_alloc(c, slabp, inuse) ==
    IF inuse = c.num THEN [list_del(c, slabp) EXCEPT !.slabs_full = list_add(slabp, @)]
    ELSE IF inuse = 1 THEN [list_del(c, slabp) EXCEPT !.slabs_partial = list_add(slabp, @)]
    ELSE c

count_alloc(st) ==
    [st EXCEPT !.active = Add32(@, 1),
               !.max_active = IF UGt(Add32(st.active, 1), @) THEN Add32(st.active, 1) ELSE @]

\* "Clear poison if debugging enabled"; a store outside the arena that raises
\* no exception changes nothing the model holds
clear_poison(m, c, objp) ==
    IF HasFlag(c.flags, SLAB_POISON) /\ InArena(objp)
    THEN Fill(m, objp, c.object_size, 0)
    ELSE m

\* the rest of kmem_cache_alloc once *objp has been read as next
unlink_object(k, slabp, objp, next) ==
    [k EXCEPT !.h = spin_unlock(
                        [@ EXCEPT !.mem = clear_poison(
                            Wr32(Wr32(@, slabp + S_FREELIST, next),
                                 slabp + S_INUSE, Add32(Rd32(k.h.mem, slabp + S_INUSE), 1)),
                            k.c, objp)]),
              !.c = [list_after_alloc(k.c, slabp, Add32(Rd32(k.h.mem, slabp + S_INUSE), 1))
                       EXCEPT !.stats = count_alloc(@)],
              !.ret = objp]

\* "Get object from freelist"
take_object(k, slabp, objp, junk, faults) ==
    IF objp = NULL
    THEN [k EXCEPT !.h = spin_unlock(@), !.c.stats.errors = Add32(@, 1), !.ret = NULL]
    ELSE IF ~InArena(objp) /\ faults
    THEN [k EXCEPT !.h.panic = "Unrecoverable exception", !.ret = NULL]
    ELSE unlink_object(k, slabp, objp, Deref32(k.h.mem, objp, junk))

pop_object(k, slabp, junk, faults) ==
    take_object(k, slabp, Rd32(k.h.mem, slabp + S_FREELIST), junk, faults)

\* "Get object from freelist" when slabp is list_first_entry of an empty
\* slabs_free: the head's next is the head itself, so slabp is the address of
\* the head, and the fields of the slab read there are fields of the
\* descriptor: slabp->freelist is cachep->limit and slabp->inuse is cachep->num.
\* The object is the value of limit; inuse++ raises num, the test
\* inuse == cachep->num compares num with itself, and the head is put on
\* slabs_full.
pop_list_head(k, junk, faults) ==
    IF k.c.limit = NULL
    THEN [k EXCEPT !.h = spin_unlock(@), !.c.stats.errors = Add32(@, 1), !.ret = NULL]
    ELSE IF ~InArena(k.c.limit) /\ faults
    THEN [k EXCEPT !.h.panic = "Unrecoverable exception", !.ret = NULL]
    ELSE [k EXCEPT !.h = spin_unlock([@ EXCEPT !.mem = clear_poison(@, k.c, k.c.limit)]),
                   !.c = [k.c EXCEPT !.limit = Deref32(k.h.mem, k.c.limit, junk),
                                     !.num = Add32(@, 1),
                                     !.slabs_full = list_add(k.c.addr + C_SLABS_FREE, @),
                                     !.stats = count_alloc(@)],
                   !.ret = k.c.limit]

\* kmem_cache_alloc from the second spin_lock: slabp is the first entry of
\* slabs_free, whatever the list holds by now
pop_first_free(k, junk, faults) ==
    IF list_empty(k.c.slabs_free) THEN pop_list_head(k, junk, faults)
    ELSE pop_object(k, list_first_entry(k.c.slabs_free), junk, faults)

alloc_relock(g, junk, faults) ==
    pop_first_free([g EXCEPT !.h = spin_lock(@)], junk, faults)

\* kmem_cache_alloc from the point where cache_grow has answered with g
alloc_after_grow(g, junk, faults) ==
    IF g.h.panic # "" THEN g
    ELSE IF g.ret < 0 THEN [g EXCEPT !.c.stats.errors = Add32(@, 1), !.ret = NULL]
    ELSE alloc_relock(g, junk, faults)

\* the choice of slab with the free list tried before the partial list
kmem_cache_alloc_free_first(k, junk, faults) ==
    IF k.c.addr = NULL THEN [k EXCEPT !.ret = NULL]
    ELSE IF ~list_empty(k.c.slabs_free)
    THEN pop_object([k EXCEPT !.h = spin_lock(@)], list_first_entry(k.c.slabs_free),
                    junk, faults)
    ELSE IF ~list_empty(k.c.slabs_partial)
    THEN pop_object([k EXCEPT !.h = spin_lock(@)], list_first_entry(k.c.slabs_partial),
                    junk, faults)
    ELSE alloc_after_grow(cache_grow([k EXCEPT !.h = spin_unlock(spin_lock(@))]),
                          junk, faults)

\* the lock is taken before the lists are looked at, and released before
\* cache_grow
kmem_cache_alloc(k, junk, faults) ==
    IF k.c.addr = NULL THEN [k EXCEPT !.ret = NULL]
    ELSE IF ~list_empty(k.c.slabs_partial)
    THEN pop_object([k EXCEPT !.h = spin_lock(@)], list_first_entry(k.c.slabs_partial),
                    junk, faults)
    ELSE IF ~list_empty(k.c.slabs_free)
    THEN pop_object([k EXCEPT !.h = spin_lock(@)], list_first_entry(k.c.slabs_free),
                    junk, faults)
    ELSE alloc_after_grow(cache_grow([k EXCEPT !.h = spin_unlock(spin_lock(@))]),
                          junk, faults)

list_after_free_no_move(c, slabp, inuse) == c

\* "Move slab to appropriate list" of kmem_cache_free
list_after_free(c, slabp, inuse) ==
    IF inuse = 0 THEN [list_del(c, slabp) EXCEPT !.slabs_free = list_add(slabp, @)]
    ELSE IF inuse = Sub32(c.num, 1)
    THEN [list_del(c, slabp) EXCEPT !.slabs_partial = list_add(slabp, @)]
    ELSE c

\* "Poison object if debugging enabled"
poison_object(m, c, objp) ==
    IF HasFlag(c.flags, SLAB_POISON) THEN Fill(m, objp, c.object_size, SLAB_POISON_BYTE) ELSE m

\* "Add object to freelist", on memory m in which the object is already poisoned
push_object(m, slabp, objp) ==
    Wr32(Wr32(Wr32(m, objp, Rd32(m, slabp + S_FREELIST)),
              slabp + S_FREELIST, objp),
         slabp + S_INUSE, Sub32(Rd32(m, slabp + S_INUSE), 1))

\* the rest of kmem_cache_free once the slab header has passed validation
link_object(k, slabp, objp) ==
    [k EXCEPT !.h = spin_unlock(spin_lock(
                        [@ EXCEPT !.mem = push_object(poison_object(@, k.c, objp),
                                                      slabp, objp)])),
              !.c = [list_after_free(k.c, slabp, Sub32(Rd32(k.h.mem, slabp + S_INUSE), 1))
                       EXCEPT !.stats.active = Sub32(@, 1)]]

slab_is_valid_magic_only(m, c, slabp, junk) ==
    Deref32(m, slabp + S_MAGIC, junk) = SLAB_RED_MAGIC1

\* "Validate slab"
slab_is_valid(m, c, slabp, junk) ==
    /\ Deref32(m, slabp + S_MAGIC, junk) = SLAB_RED_MAGIC1
    /\ Deref32(m, slabp + S_CACHE, junk) = c.addr

kmem_cache_free(k, objp, junk, faults) ==
    IF k.c.addr = NULL \/ objp = NULL THEN k
    ELSE IF ~InArena(AndNotMask(objp, PAGE_SIZE)) /\ faults
    THEN [k EXCEPT !.h.panic = "Unrecoverable exception"]
    ELSE IF ~slab_is_valid(k.h.mem, k.c, AndNotMask(objp, PAGE_SIZE), junk)
    THEN [k EXCEPT !.h.panic = "Invalid object passed to kmem_cache_free"]
    ELSE link_object(k, AndNotMask(objp, PAGE_SIZE), objp)

(* Bulk allocation.  A state b of the loop is [k, p, ret]: the layer state, *)
(* the objects stored in p[] so far and the C return value.                *)

\* "Free already allocated objects": while (i--) kmem_cache_free(cachep, p[i])
RECURSIVE free_obtained(_, _, _, _, _)
free_obtained(k, p, i, junk, faults) ==
    IF i = 0 \/ k.h.panic # "" THEN k
    ELSE free_obtained(kmem_cache_free(k, p[i], junk, faults), p, i - 1, junk, faults)

\* return i, after while (i--) has left the unsigned i at SIZE_MAX
bulk_failed(b, a, junk, faults) ==
    [b EXCEPT !.k = free_obtained(a, b.p, Len(b.p), junk, faults), !.ret = SIZE_MAX]

RECURSIVE bulk_from(_, _, _, _)
\* the loop body once kmem_cache_alloc has answered with a
bulk_after_alloc(b, a, size, junk, faults) ==
    IF a.h.panic # "" THEN [b EXCEPT !.k = a]
    ELSE IF a.ret = NULL THEN bulk_failed(b, a, junk, faults)
    ELSE bulk_from([b EXCEPT !.k = a, !.p = Append(@, a.ret)], size, junk, faults)

bulk_from(b, size, junk, faults) ==
    IF Len(b.p) = size THEN [b EXCEPT !.ret = size]
    ELSE bulk_after_alloc(b, kmem_cache_alloc(b.k, junk, faults), size, junk, faults)

kmem_cache_alloc_bulk(k, size, junk, faults) ==
    bulk_from([k |-> k, p |-> <<>>, ret |-> 0], size, junk, faults)

RECURSIVE free_bulk_from(_, _, _, _, _)
free_bulk_from(k, p, i, junk, faults) ==
    IF i = Len(p) \/ k.h.panic # "" THEN k
    ELSE free_bulk_from(kmem_cache_free(k, p[i + 1], junk, faults), p, i + 1, junk, faults)

kmem_cache_free_bulk(k, p, junk, faults) == free_bulk_from(k, p, 0, junk, faults)

(* Destroying a cache.  No cache of the model has a destructor.             *)

\* free_slab once kfree_aligned has answered with f: the object count is read
\* from the slab header after the slab went back to the heap
slab_freed(k, f, slabp) ==
    IF f.panic # "" THEN [k EXCEPT !.h = f]
    ELSE [k EXCEPT !.h = f, !.c.stats.freed = Add32(@, Rd32(f.mem, slabp + S_OBJECTS))]

free_slab(k, slabp) == slab_freed(k, kfree_aligned(k.h, slabp), slabp)

\* list_for_each_entry_safe over one list: list_del, then free_slab
RECURSIVE free_slabs(_, _)
free_slabs(k, slabs) ==
    IF slabs = <<>> \/ k.h.panic # "" THEN k
    ELSE free_slabs(free_slab([k EXCEPT !.c = list_del(@, Head(slabs))], Head(slabs)),
                    Tail(slabs))

free_slabs_full(k) == free_slabs(k, k.c.slabs_full)
free_slabs_partial(k) == free_slabs(k, k.c.slabs_partial)
free_slabs_free(k) == free_slabs(k, k.c.slabs_free)

\* "Remove from cache chain", the unlock, and kfree(cachep)
destroy_descriptor(k) ==
    IF k.h.panic # "" THEN k
    ELSE [k EXCEPT !.chain = list_remove(@, k.c.addr),
                   !.h = kfree(spin_unlock(@), k.c.addr)]

kmem_cache_destroy(k) ==
    IF k.c.addr = NULL THEN k
    ELSE destroy_descriptor(
             free_slabs_free(free_slabs_partial(free_slabs_full(
                 [k EXCEPT !.h = spin_lock(@)]))))

\* kmem_cache_info only prints
slab_debug_info(k) == [k EXCEPT !.h = spin_unlock(spin_lock(@))]

(* The size classes.  A state q of the layer is [h, chain, caches]: heap     *)
(* state, cache chain and kmalloc_caches[].                                 *)

\* sizes[] of slab_init
kmalloc_sizes == <<8, 16, 32, 64, 128, 256, 512, 1024, 2048, 4096, 8192, 16384>>

RECURSIVE slab_init_from(_, _)
\* the loop body of slab_init for class i once kmem_cache_create has answered with k
class_created(q, k, i) ==
    IF k.h.panic # "" THEN [q EXCEPT !.h = k.h]
    ELSE IF k.ret = NULL
    THEN [q EXCEPT !.h = [k.h EXCEPT !.panic = "Failed to create kmalloc cache"]]
    ELSE slab_init_from([h |-> k.h, chain |-> k.chain, caches |-> [q.caches EXCEPT ![i] = k.c]],
                        i + 1)

slab_init_from(q, i) ==
    IF i = KMALLOC_CLASSES THEN q
    ELSE class_created(q, kmem_cache_create(q.h, q.chain, kmalloc_sizes[i + 1], 0,
                                             SLAB_HWCACHE_ALIGN), i)

\* INIT_LIST_HEAD(&cache_chain), then one cache per size
slab_init(q) == slab_init_from([q EXCEPT !.chain = <<>>], 0)

kmem_cache_size(c) == IF c.addr # NULL THEN c.object_size ELSE 0

\* the search of kmalloc_slab, from index i
RECURSIVE class_index(_, _, _)
class_index(caches, size, i) ==
    IF i < KMALLOC_SLAB_LIMIT /\ caches[i].addr # NULL /\ UGt(size, kmem_cache_size(caches[i]))
    THEN class_index(caches, size, i + 1)
    ELSE i

\* kmalloc_slab once the search has stopped at index i; the result is the
\* layer state of the cache used, with ret the C return value
alloc_from_class(q, i, junk, faults) ==
    IF i >= KMALLOC_SLAB_LIMIT \/ q.caches[i].addr = NULL
    THEN [h |-> q.h, c |-> ZeroCache(NULL), chain |-> q.chain, ret |-> NULL]
    ELSE kmem_cache_alloc([h |-> q.h, c |-> q.caches[i], chain |-> q.chain, ret |-> NULL],
                          junk, faults)

kmalloc_slab(q, size, junk, faults) ==
    IF size = 0 THEN [h |-> q.h, c |-> ZeroCache(NULL), chain |-> q.chain, ret |-> NULL]
    ELSE alloc_from_class(q, class_index(q.caches, size, 0), junk, faults)

(* The physical frame allocator *)

FrameState ==
    [bitmap |-> frame_bitmap, total |-> total_frames, used |-> used_frames,
     last |-> last_alloc_frame, ret |-> NULL, found |-> FALSE, panic |-> ""]

\* the frame part of paging_init: the counters and the cleared bitmap
paging_init_frames(mem_size) ==
    IF mem_size < MIN_PAGING_MEM
    THEN [FrameState EXCEPT !.panic = "Insufficient memory for paging (minimum 4MB required)"]
    ELSE [bitmap |-> [w \in 0 .. ((((mem_size \div PAGE_SIZE) + 31) \div 32) - 1) |-> {}],
          total |-> mem_size \div PAGE_SIZE, used |-> 0, last |-> 0,
          ret |-> NULL, found |-> FALSE, panic |-> ""]

bitmap_index(frame_index) == frame_index \div BITS_PER_WORD
bit_index(frame_index) == frame_index % BITS_PER_WORD

\* frame_bitmap[bitmap_index] & (1 << bit_index)
test_bit(bm, frame_index) == bit_index(frame_index) \in bm[bitmap_index(frame_index)]

set_bit_skipped(bm, frame_index) == bm

\* frame_bitmap[bitmap_index] |= (1 << bit_index)
set_bit(bm, frame_index) ==
    [bm EXCEPT ![bitmap_index(frame_index)] = @ \cup {bit_index(frame_index)}]

\* frame_bitmap[bitmap_index] &= ~(1 << bit_index)
clear_bit(bm, frame_index) ==
    [bm EXCEPT ![bitmap_index(frame_index)] = @ \ {bit_index(frame_index)}]

\* iterations lo..hi of the loop of alloc_frame, in order: the index of the first
\* clear bit met, or total_frames when none of them meets one (the range is
\* halved so that a long pass is evaluated without deep nesting)
RECURSIVE scan_frames(_, _, _, _)
RECURSIVE scan_second_half(_, _, _, _, _)
scan_frames(f, start_frame, lo, hi) ==
    IF lo > hi THEN f.total
    ELSE IF lo = hi
    THEN IF ~test_bit(f.bitmap, UMod(Add32(start_frame, lo), f.total))
         THEN UMod(Add32(start_frame, lo), f.total)
         ELSE f.total
    ELSE scan_second_half(f, start_frame, ((lo + hi) \div 2) + 1, hi,
                          scan_frames(f, start_frame, lo, (lo + hi) \div 2))

scan_second_half(f, start_frame, lo, hi, first_half) ==
    IF first_half # f.total THEN first_half ELSE scan_frames(f, start_frame, lo, hi)

take_frame(f, frame_index) ==
    IF frame_index = f.total THEN [f EXCEPT !.ret = NULL, !.found = FALSE]
    ELSE [f EXCEPT !.bitmap = set_bit(@, frame_index),
                   !.used = Add32(@, 1),
                   !.last = frame_index,
                   !.ret = frame_index * PAGE_SIZE,
                   !.found = TRUE]

alloc_frame(f) == take_frame(f, scan_frames(f, f.last, 0, f.total - 1))

free_frame(f, frame) ==
    [f EXCEPT !.bitmap = clear_bit(@, frame \div PAGE_SIZE),
              !.used = Sub32(@, 1)]

\* run: the addresses a run of alloc_frame calls has obtained so far, in order
frames_with(r, run) == IF r.found THEN Append(run, r.ret) ELSE run

\* fr is the allocator state f and the run so far
alloc_frame_in_run(fr, r) == [f |-> r, run |-> frames_with(r, fr.run)]

\* up to n alloc_frame calls in a row (n >= 1), ended by the first call that
\* finds no frame: the first n \div 2 calls and then the rest
RECURSIVE alloc_frames(_, _)
RECURSIVE alloc_frames_rest(_, _)
alloc_frames(fr, n) ==
    IF n = 1 THEN alloc_frame_in_run(fr, alloc_frame(fr.f))
    ELSE alloc_frames_rest(alloc_frames(fr, n \div 2), n - (n \div 2))

alloc_frames_rest(fr, n) == IF fr.f.found THEN alloc_frames(fr, n) ELSE fr

\* free_frame on each frame of the set whose index lies in lo..hi, in index order
RECURSIVE free_frames(_, _, _, _)
free_frames(f, frames, lo, hi) ==
    IF lo = hi
    THEN IF (lo * PAGE_SIZE) \in frames THEN free_frame(f, lo * PAGE_SIZE) ELSE f
    ELSE CHOOSE g \in {free_frames(h, frames, ((lo + hi) \div 2) + 1, hi) :
                          h \in {free_frames(f, frames, lo, (lo + hi) \div 2)}} : TRUE

(* Paging: the page directory, its page tables and paging_init.  A state s  *)
(* of the layer is [h, f, dir, tables, entries, pts]: heap state, frame     *)
(* allocator state, current_directory, its tables[] and entries[] (an index *)
(* that is absent was cleared: no table, not present) and the page tables   *)
(* by address (an entry that is absent was cleared by the table's creation).*)

PagingState ==
    [h |-> HeapState, f |-> FrameState, dir |-> current_directory,
     tables |-> dir_tables, entries |-> dir_entries, pts |-> page_tables, log |-> tlb_log]

\* the call that starts now has written no entry and invalidated nothing yet
CallStart(s) == [s EXCEPT !.log = <<>>]

\* a store to entry entry_index of the page table at address table
EntryWrite(table, entry_index) == [ev |-> "entry", a |-> table, b |-> entry_index]
\* invlpg (virt_addr)
Invlpg(virt_addr) == [ev |-> "invlpg", a |-> virt_addr, b |-> 0]

\* x >> 12 on a 32-bit word, as the 20-bit frame field holds it
FrameField(x) == (x \div PAGE_SIZE) % 1048576

FlagBit(flags, bit) == IF HasFlag(flags, bit) THEN 1 ELSE 0

table_of(s, table_index) ==
    IF table_index \in DOMAIN s.tables THEN s.tables[table_index] ELSE NULL

\* "Map the page": the entry is written through dir->tables[table_index]
set_page_entry(s, table_index, entry_index, phys_addr, flags) ==
    [s EXCEPT !.pts[table_of(s, table_index)] =
                  (entry_index :> [frame |-> FrameField(phys_addr),
                                   present |-> FlagBit(flags, 1),
                                   rw |-> FlagBit(flags, 2),
                                   user |-> FlagBit(flags, 4)]) @@ @,
              !.log = Append(@, EntryWrite(table_of(s, table_index), entry_index))]

\* "Create page table if it doesn't exist", once kmalloc_aligned has answered
\* with r: the result is stored and written through without a test
table_from_block(s, r, table_index) ==
    [s EXCEPT !.h = r,
              !.tables = (table_index :> r.ret) @@ @,
              !.pts = (r.ret :> <<>>) @@ @,
              !.entries = (table_index :> [frame |-> FrameField(r.ret), present |-> 1,
                                           rw |-> 1, user |-> 0]) @@ @]

entry_after_table(s, table_index, entry_index, phys_addr, flags) ==
    IF s.h.panic # "" THEN s
    ELSE set_page_entry(s, table_index, entry_index, phys_addr, flags)

map_page_at(s, table_index, entry_index, phys_addr, flags) ==
    IF table_of(s, table_index) = NULL
    THEN entry_after_table(
             table_from_block(s, kmalloc_aligned(s.h, PAGE_TABLE_SIZE, PAGE_SIZE), table_index),
             table_index, entry_index, phys_addr, flags)
    ELSE set_page_entry(s, table_index, entry_index, phys_addr, flags)

invlpg_skipped(s, virt_addr) == s

\* "Invalidate TLB"
invlpg(s, virt_addr) ==
    IF s.h.panic # "" THEN s ELSE [s EXCEPT !.log = Append(@, Invlpg(virt_addr))]

map_page(s, virt_addr, phys_addr, flags) ==
    IF s.h.panic # "" THEN s
    ELSE invlpg(map_page_at(s, FrameField(virt_addr) \div PAGE_ENTRIES,
                            FrameField(virt_addr) % PAGE_ENTRIES, phys_addr, flags),
                virt_addr)

\* the entry's present bit is cleared; an entry the table's creation cleared
\* stays as it is
clear_present(table, entry_index) ==
    IF entry_index \in DOMAIN table THEN [table EXCEPT ![entry_index].present = 0] ELSE table

unmap_page(s, virt_addr) ==
    IF table_of(s, FrameField(virt_addr) \div PAGE_ENTRIES) = NULL THEN s
    ELSE invlpg([s EXCEPT !.pts[table_of(s, FrameField(virt_addr) \div PAGE_ENTRIES)] =
                              clear_present(@, FrameField(virt_addr) % PAGE_ENTRIES),
                          !.log = Append(@, EntryWrite(
                                                table_of(s, FrameField(virt_addr) \div PAGE_ENTRIES),
                                                FrameField(virt_addr) % PAGE_ENTRIES))],
                virt_addr)

\* "Identity map first 4MB": map_page for the pages lo..hi, in order
RECURSIVE map_pages(_, _, _)
map_pages(s, lo, hi) ==
    IF lo = hi THEN map_page(s, lo * PAGE_SIZE, lo * PAGE_SIZE, 3)
    ELSE CHOOSE t \in {map_pages(u, ((lo + hi) \div 2) + 1, hi) :
                          u \in {map_pages(s, lo, (lo + hi) \div 2)}} : TRUE

\* "Enable paging with error checking": pg is the paging bit read from CR0
enable_paging(s, pg) ==
    IF s.h.panic # "" THEN s
    ELSE IF pg THEN [s EXCEPT !.h.panic = "Paging already enabled"]
    ELSE s

\* paging_init once kmalloc_aligned has answered the directory request with r
identity_after_directory(s, r, pg) ==
    IF r.panic # "" THEN [s EXCEPT !.h = r]
    ELSE IF r.ret = NULL
    THEN [s EXCEPT !.h = [r EXCEPT !.panic = "Failed to allocate page directory"]]
    ELSE enable_paging(
             map_pages([s EXCEPT !.h = r, !.dir = r.ret, !.tables = <<>>, !.entries = <<>>],
                       0, IDENTITY_PAGES - 1),
             pg)

\* paging_init once kmalloc has answered the bitmap request with r
directory_after_bitmap(s, r, pg) ==
    IF r.panic # "" THEN [s EXCEPT !.h = r]
    ELSE IF r.ret = NULL
    THEN [s EXCEPT !.h = [r EXCEPT !.panic = "Failed to allocate frame bitmap"]]
    ELSE identity_after_directory(s, kmalloc_aligned(r, PAGE_DIRECTORY_SIZE, PAGE_SIZE), pg)

bitmap_size(mem_size) == (((mem_size \div PAGE_SIZE) + 31) \div 32) * 4

paging_init_no_floor(s, mem_size, pg) ==
    directory_after_bitmap([s EXCEPT !.f = paging_init_frames(mem_size)],
                           kmalloc(s.h, bitmap_size(mem_size)), pg)

paging_init(s, mem_size, pg) ==
    IF mem_size < MIN_PAGING_MEM
    THEN [s EXCEPT !.h.panic = "Insufficient memory for paging (minimum 4MB required)"]
    ELSE directory_after_bitmap([s EXCEPT !.f = paging_init_frames(mem_size)],
                                kmalloc(s.h, bitmap_size(mem_size)), pg)

(* Observers of the block chain *)

RECURSIVE Chain(_, _)
Chain(m, block) == IF block = NULL THEN <<>> ELSE <<block>> \o Chain(m, B_next(m, block))

ChainSet(m, head) == {Chain(m, head)[i] : i \in 1..Len(Chain(m, head))}

RECURSIVE FreeBytesFrom(_, _)
FreeBytesFrom(m, block) ==
    IF block = NULL THEN 0
    ELSE (IF B_used(m, block) = 0 THEN B_size(m, block) ELSE 0) + FreeBytesFrom(m, B_next(m, block))

FreeBytes(h) == FreeBytesFrom(h.mem, h.head)

-----------------------------------------------------------------------------
(* The callers of the heap.  Each action is one call; once panic() has     *)
(* halted the system nothing runs any more.                                *)

NoCall == [op |-> "none", arg |-> 0, al |-> 0, ret |-> 0, pre_free |-> 0, pre_chain |-> <<>>]
NoScen == [stage |-> 0, a |-> 0, b |-> 0, c |-> 0, sum |-> 0, lead_free |-> FALSE]

Running == panic_msg = ""

\* the heap part of the state after a call that left heap state r
SetHeap(r) ==
    /\ mem' = r.mem
    /\ heap_head' = r.head
    /\ heap_tail' = r.tail
    /\ mem_stats' = r.stats
    /\ panic_msg' = r.panic
    /\ UNCHANGED <<kernel_heap_start, total_frames>>

\* how many kmalloc calls the caller makes
AllocBudget ==
    IF harness = "heap" THEN MaxAllocs
    ELSE IF harness = "aligned" THEN MaxAlignedAllocs
    ELSE IF harness = "aligned_requests" THEN MaxAlignedRequests
    ELSE IF harness = "create" THEN MaxCreateAllocs
    ELSE IF harness = "verify" THEN MaxVerifyAllocs
    ELSE IF harness = "map" THEN MaxMapAllocs
    ELSE IF harness = "preempt" THEN MaxPreemptAllocs
    ELSE MaxDoubleFreeAllocs

\* no call is suspended
NoCallInProgress == [pc |-> "idle", size |-> 0, best_fit |-> NULL, shared |-> FALSE]

InitCaller(h) ==
    /\ harness = h
    /\ in_progress = NoCallInProgress
    /\ live = {}
    /\ freed = {}
    /\ aligned_live = {}
    /\ misuse = FALSE
    /\ last = NoCall
    /\ scen = NoScen

NoFrameCall == [op |-> "none", ret |-> 0, found |-> FALSE, start |-> 0, was_held |-> FALSE]

\* no page directory has been created
InitNoPaging ==
    /\ current_directory = NULL
    /\ dir_tables = <<>>
    /\ dir_entries = <<>>
    /\ page_tables = <<>>
    /\ tlb_log = <<>>

\* the frame allocator's statics before paging_init has run
InitNoFrames ==
    /\ frame_bitmap = <<>>
    /\ used_frames = 0
    /\ last_alloc_frame = 0
    /\ held = {}
    /\ reserved = {}
    /\ frame_last = NoFrameCall
    /\ frame_calls = 0
    /\ InitNoPaging

NoCacheCall == [op |-> "none", arg |-> 0, ret |-> 0, slab |-> 0]
NoSlabScen == [stage |-> "filling", n |-> 0, slab |-> 0, left |-> {}]

\* kmalloc_caches[] before slab_init: twelve null pointers
NoKmallocCaches == [i \in 0 .. (KMALLOC_CLASSES - 1) |-> ZeroCache(NULL)]

InitCacheCaller ==
    /\ other_cache = ZeroCache(NULL)
    /\ kmalloc_caches = NoKmallocCaches
    /\ objs = <<>>
    /\ slabs_made = {}
    /\ slab_last = NoCacheCall
    /\ slab_scen = NoSlabScen
    /\ cache_calls = 0

\* no cache has been created
InitNoCache ==
    /\ cachep = ZeroCache(NULL)
    /\ cache_chain = <<>>
    /\ cache_chain_lock = Unlocked
    /\ InitCacheCaller

InitMemory ==
    /\ kernel_heap_start \in HeapStarts
    /\ mem = heap_init(kernel_heap_start).mem
    /\ heap_head = kernel_heap_start
    /\ heap_tail = kernel_heap_start
    /\ mem_stats = ZeroStats
    /\ total_frames = 0
    /\ panic_msg = ""
    /\ InitNoFrames
    /\ InitNoCache

InitHeap == InitMemory /\ InitCaller("heap")
InitAligned == InitMemory /\ InitCaller("aligned")
InitDoubleFree == InitMemory /\ InitCaller("double_free")

\* p heads three address-adjacent used blocks A, B, C that a used block follows
StartsTriple(m, p) ==
    LET a == Sub32(p, HEAP_HDR)
        b == B_next(m, a)
        c == IF b = NULL THEN NULL ELSE B_next(m, b)
        d == IF c = NULL THEN NULL ELSE B_next(m, c)
    IN /\ b # NULL /\ c # NULL /\ d # NULL
       /\ B_used(m, b) # 0 /\ B_used(m, c) # 0 /\ B_used(m, d) # 0
       /\ Add32(b, HEAP_HDR) \in live /\ Add32(c, HEAP_HDR) \in live

TripleOf(m, p) ==
    LET a == Sub32(p, HEAP_HDR)
        b == B_next(m, a)
        c == B_next(m, b)
    IN [stage |-> 1, a |-> a, b |-> b, c |-> c,
        sum |-> B_size(m, a) + B_size(m, b) + B_size(m, c),
        lead_free |-> B_prev(m, a) # NULL /\ B_used(m, B_prev(m, a)) = 0]

TripleAfterFree(p) ==
    IF scen.stage = 1 /\ p = Add32(scen.c, HEAP_HDR) THEN [scen EXCEPT !.stage = 2]
    ELSE IF scen.stage = 2 /\ p = Add32(scen.b, HEAP_HDR) THEN [scen EXCEPT !.stage = 3]
    ELSE IF StartsTriple(mem, p) THEN TripleOf(mem, p)
    ELSE NoScen

Kmalloc(size) ==
    /\ Running
    /\ mem_stats.total_allocations < AllocBudget
    /\ LET r == kmalloc(HeapState, size)
       IN /\ SetHeap(r)
          /\ live' = IF r.ret # NULL THEN live \cup {r.ret} ELSE live
          /\ last' = [NoCall EXCEPT !.op = "kmalloc"]
    /\ freed' = {}
    /\ scen' = NoScen
    /\ UNCHANGED <<aligned_live, misuse, harness, in_progress>>
    /\ UNCHANGED <<frameVars, slabVars>>

Kfree(p) ==
    /\ Running
    /\ p \in live
    /\ LET r == kfree(HeapState, p)
       IN /\ SetHeap(r)
          /\ live' = IF r.panic = "" THEN live \ {p} ELSE live
          /\ freed' = IF r.panic = "" /\ harness = "double_free" THEN freed \cup {p} ELSE freed
          /\ scen' = IF r.panic = "" THEN TripleAfterFree(p) ELSE NoScen
          \* ret: how many blocks the call merged away
          /\ last' = [NoCall EXCEPT !.op = "kfree",
                         !.ret = Len(Chain(mem, heap_head)) - Len(Chain(r.mem, r.head))]
    /\ UNCHANGED <<aligned_live, misuse, harness, in_progress>>
    /\ UNCHANGED <<frameVars, slabVars>>

\* the caller's error: kfree of a pointer it has already freed
KfreeAgain(p) ==
    /\ Running
    /\ p \in freed
    /\ SetHeap(kfree(HeapState, p))
    /\ misuse' = TRUE
    /\ last' = [NoCall EXCEPT !.op = "kfree_again", !.arg = p]
    /\ scen' = NoScen
    /\ UNCHANGED <<live, freed, aligned_live, harness, in_progress>>
    /\ UNCHANGED <<frameVars, slabVars>>

\* what the caller keeps of a kmalloc_aligned call that left heap state r
KmallocAlignedReturns(r, size, alignment) ==
    /\ SetHeap(r)
    /\ aligned_live' = IF r.ret # NULL THEN aligned_live \cup {r.ret} ELSE aligned_live
    /\ last' = [op |-> "kmalloc_aligned", arg |-> size, al |-> alignment, ret |-> r.ret,
                pre_free |-> FreeBytes(HeapState),
                pre_chain |-> Chain(mem, heap_head)]

KmallocAligned(size, alignment) ==
    /\ Running
    /\ mem_stats.total_allocations < AllocBudget
    /\ KmallocAlignedReturns(kmalloc_aligned(HeapState, size, alignment), size, alignment)
    /\ freed' = {}
    /\ scen' = NoScen
    /\ UNCHANGED <<live, misuse, harness, in_progress>>
    /\ UNCHANGED <<frameVars, slabVars>>

KfreeAligned(p) ==
    /\ Running
    /\ p \in aligned_live
    /\ LET r == kfree_aligned(HeapState, p)
       IN /\ SetHeap(r)
          /\ aligned_live' = IF r.panic = "" THEN aligned_live \ {p} ELSE aligned_live
          \* "kfree_aligned_rt": the call directly follows the kmalloc_aligned that returned p
          /\ last' = IF last.op = "kmalloc_aligned" /\ last.ret = p
                     THEN [last EXCEPT !.op = "kfree_aligned_rt", !.arg = p]
                     ELSE [NoCall EXCEPT !.op = "kfree_aligned", !.arg = p]
    /\ scen' = NoScen
    /\ UNCHANGED <<live, freed, misuse, harness, in_progress>>
    /\ UNCHANGED <<frameVars, slabVars>>

NextHeap ==
    \/ \E size \in ReqSizes : Kmalloc(size)
    \/ \E p \in live : Kfree(p)

SpecHeap == InitHeap /\ [][NextHeap]_vars

(* Callers whose requests may fail: sizes of zero, larger than the arena and *)
(* at the top of the 32-bit range, among ordinary allocations and frees.     *)

InitExhaust == InitMemory /\ InitCaller("exhaust")

KmallocRequestReturns(r, size) ==
    /\ SetHeap(r)
    /\ live' = IF r.ret # NULL THEN live \cup {r.ret} ELSE live
    /\ last' = [NoCall EXCEPT !.op = "kmalloc", !.arg = size, !.ret = r.ret,
                              !.pre_chain = Chain(mem, heap_head)]

KmallocRequest(size) ==
    /\ Running
    /\ mem_stats.total_allocations < MaxExhaustAllocs
    /\ mem_stats.fragmentation_count < MaxFailedAllocs
    /\ KmallocRequestReturns(kmalloc(HeapState, size), size)
    /\ freed' = {}
    /\ scen' = NoScen
    /\ UNCHANGED <<aligned_live, misuse, harness, in_progress>>
    /\ UNCHANGED <<frameVars, slabVars>>

NextExhaust ==
    \/ \E size \in ExhaustSizes : KmallocRequest(size)
    \/ \E p \in live : Kfree(p)

SpecExhaust == InitExhaust /\ [][NextExhaust]_vars

(* Callers whose heap holds free blocks of several sizes: a large request    *)
(* fills the arena, so that the last block is a small one.                   *)

InitFit == InitMemory /\ InitCaller("fit")

KmallocFit(size) ==
    /\ Running
    /\ mem_stats.total_allocations < MaxFitAllocs
    /\ mem_stats.fragmentation_count < MaxFailedAllocs
    /\ KmallocRequestReturns(kmalloc(HeapState, size), size)
    /\ freed' = {}
    /\ scen' = NoScen
    /\ UNCHANGED <<aligned_live, misuse, harness, in_progress>>
    /\ UNCHANGED <<frameVars, slabVars>>

NextFit ==
    \/ \E size \in FitSizes : KmallocFit(size)
    \/ \E p \in live : Kfree(p)

SpecFit == InitFit /\ [][NextFit]_vars

(* A kmalloc call that an interrupt suspends between the scan for the best  *)
(* fit (mm.c:122-138) and the use of the block found (mm.c:140-186); the    *)
(* handler calls kmalloc to completion, and the call is then resumed.       *)

InitPreempt == InitMemory /\ InitCaller("preempt")

\* the call runs up to the end of its scan
KmallocSelect(size) ==
    /\ Running
    /\ in_progress.pc = "idle"
    /\ mem_stats.total_allocations < MaxPreemptAllocs
    /\ FindBestFit(mem, heap_head, RoundSize(size), NULL, SIZE_MAX) # NULL
    /\ in_progress' = [pc |-> "selected", size |-> RoundSize(size),
                        best_fit |-> FindBestFit(mem, heap_head, RoundSize(size), NULL, SIZE_MAX),
                        shared |-> FALSE]
    /\ UNCHANGED <<heapVars, live, freed, aligned_live, misuse, last, scen, harness>>
    /\ UNCHANGED <<frameVars, slabVars>>

\* shared: the call has returned a payload that an earlier call returned and
\* that has not been freed
KmallocResumeReturns(r) ==
    /\ SetHeap(r)
    /\ live' = IF r.ret # NULL THEN live \cup {r.ret} ELSE live
    /\ last' = [NoCall EXCEPT !.op = "kmalloc", !.arg = in_progress.size, !.ret = r.ret]
    /\ in_progress' = [in_progress EXCEPT !.pc = "idle",
                                           !.shared = r.panic = "" /\ r.ret \in live]

\* the suspended call runs from the end of its scan to its return
KmallocResume ==
    /\ Running
    /\ in_progress.pc = "selected"
    /\ KmallocResumeReturns(kmalloc_resume(HeapState, in_progress.size, in_progress.best_fit))
    /\ freed' = {}
    /\ scen' = NoScen
    /\ UNCHANGED <<aligned_live, misuse, harness>>
    /\ UNCHANGED <<frameVars, slabVars>>

\* Kmalloc: a call that is not interrupted, made by the interrupt handler while
\* a call is suspended or by the caller while none is
NextPreempt ==
    \/ \E size \in PreemptSizes : KmallocSelect(size)
    \/ KmallocResume
    \/ \E size \in PreemptSizes : Kmalloc(size)
    \/ \E p \in live : in_progress.pc = "idle" /\ Kfree(p)

SpecPreempt == InitPreempt /\ [][NextPreempt]_vars

NextDoubleFree ==
    \/ \E size \in ReqSizes : Kmalloc(size)
    \/ \E p \in live : Kfree(p)
    \/ \E p \in freed : KfreeAgain(p)

SpecDoubleFree == InitDoubleFree /\ [][NextDoubleFree]_vars

NextAligned ==
    \/ \E size \in AlignedCtxSizes : Kmalloc(size)
    \/ \E p \in live : Kfree(p)
    \/ \E size \in AlignedSizes, alignment \in Alignments : KmallocAligned(size, alignment)
    \/ \E p \in aligned_live : KfreeAligned(p)

SpecAligned == InitAligned /\ [][NextAligned]_vars

(* Callers that hand kmalloc_aligned any size and alignment: zero, values that *)
(* are not powers of two, and sizes at the top of the 32-bit range.            *)

InitAlignedRequests == InitMemory /\ InitCaller("aligned_requests")

KmallocAlignedRequest(size, alignment) ==
    /\ mem_stats.fragmentation_count < MaxFailedAllocs
    /\ KmallocAligned(size, alignment)

NextAlignedRequests ==
    \/ \E size \in AlignedCtxSizes : Kmalloc(size)
    \/ \E p \in live : Kfree(p)
    \/ \E size \in AlignedRequestSizes, alignment \in AlignedRequestAlignments :
          KmallocAlignedRequest(size, alignment)
    \/ \E p \in aligned_live : KfreeAligned(p)

SpecAlignedRequests == InitAlignedRequests /\ [][NextAlignedRequests]_vars

(* The callers of the frame allocator, once paging_init has set it up *)

InitFrame ==
    /\ kernel_heap_start \in HeapStarts
    /\ mem = heap_init(kernel_heap_start).mem
    /\ heap_head = kernel_heap_start
    /\ heap_tail = kernel_heap_start
    /\ mem_stats = ZeroStats
    /\ panic_msg = ""
    /\ \E mem_size \in MemSizes :
          /\ total_frames = paging_init_frames(mem_size).total
          /\ frame_bitmap = paging_init_frames(mem_size).bitmap
          /\ used_frames = paging_init_frames(mem_size).used
          /\ last_alloc_frame = paging_init_frames(mem_size).last
    /\ held = {}
    /\ reserved = {}
    /\ frame_last = NoFrameCall
    /\ frame_calls = 0
    /\ InitNoPaging
    /\ InitNoCache
    /\ InitCaller("frame")

SetFrames(r) ==
    /\ frame_bitmap' = r.bitmap
    /\ used_frames' = r.used
    /\ last_alloc_frame' = r.last
    /\ UNCHANGED <<heapVars, callerVars, slabVars, pagingVars>>

AllocFrameReturns(r) ==
    /\ SetFrames(r)
    /\ held' = IF r.found THEN held \cup {r.ret} ELSE held
    /\ frame_last' = [op |-> "alloc_frame", ret |-> r.ret, found |-> r.found,
                      start |-> last_alloc_frame,
                      was_held |-> r.found /\ r.ret \in (held \cup reserved)]

AllocFrame ==
    /\ Running
    /\ Cardinality(held) < MaxHeldFrames
    /\ frame_calls < MaxFrameCalls
    /\ AllocFrameReturns(alloc_frame(FrameState))
    /\ frame_calls' = frame_calls + 1
    /\ UNCHANGED reserved

FreeFrame(frame) ==
    /\ Running
    /\ frame \in held
    /\ SetFrames(free_frame(FrameState, frame))
    /\ held' = held \ {frame}
    /\ frame_last' = [NoFrameCall EXCEPT !.op = "free_frame", !.ret = frame]
    /\ UNCHANGED <<reserved, frame_calls>>

ReserveFramesReturns(r) ==
    /\ SetFrames(r.f)
    /\ reserved' = {r.run[i] : i \in 1 .. Len(r.run)}
    /\ frame_last' = [op |-> "alloc_frames", ret |-> Len(r.run),
                      found |-> Len(r.run) = ReservedFrames,
                      start |-> last_alloc_frame,
                      was_held |-> \/ \E i \in 1 .. Len(r.run) : r.run[i] \in held
                                   \/ Cardinality({r.run[i] : i \in 1 .. Len(r.run)}) < Len(r.run)]

\* a caller takes ReservedFrames frames by as many alloc_frame calls
ReserveFrames ==
    /\ Running
    /\ reserved = {}
    /\ used_frames + ReservedFrames <= total_frames
    /\ frame_calls < MaxFrameCalls
    /\ ReserveFramesReturns(alloc_frames([f |-> FrameState, run |-> <<>>], ReservedFrames))
    /\ frame_calls' = frame_calls + 1
    /\ UNCHANGED held

\* and gives them all back by as many free_frame calls
ReleaseFrames ==
    /\ Running
    /\ reserved # {}
    /\ SetFrames(free_frames(FrameState, reserved, 0, total_frames - 1))
    /\ reserved' = {}
    /\ frame_last' = [NoFrameCall EXCEPT !.op = "free_frames"]
    /\ UNCHANGED <<held, frame_calls>>

NextFrame ==
    \/ AllocFrame
    \/ \E frame \in held : FreeFrame(frame)
    \/ ReserveFrames
    \/ ReleaseFrames

SpecFrame == InitFrame /\ [][NextFrame]_vars

(* The callers of paging_init and of the frame allocator it sets up; before *)
(* paging_init a caller may have taken most of the heap.                    *)

InitPaging == InitMemory /\ InitCaller("paging")

SetPaging(s) ==
    /\ mem' = s.h.mem
    /\ heap_head' = s.h.head
    /\ heap_tail' = s.h.tail
    /\ mem_stats' = s.h.stats
    /\ panic_msg' = s.h.panic
    /\ total_frames' = s.f.total
    /\ frame_bitmap' = s.f.bitmap
    /\ used_frames' = s.f.used
    /\ last_alloc_frame' = s.f.last
    /\ current_directory' = s.dir
    /\ dir_tables' = s.tables
    /\ dir_entries' = s.entries
    /\ page_tables' = s.pts
    /\ tlb_log' = s.log
    /\ UNCHANGED <<kernel_heap_start, callerVars, slabVars>>

PagingInit(mem_size, pg) ==
    /\ Running
    /\ frame_last.op = "none"
    /\ SetPaging(paging_init(CallStart(PagingState), mem_size, pg))
    /\ frame_last' = [NoFrameCall EXCEPT !.op = "paging_init", !.ret = mem_size]
    /\ UNCHANGED <<held, reserved, frame_calls>>

\* free_frame on a frame address in range, whether or not the frame is allocated
FreeAnyFrame(frame) ==
    /\ Running
    /\ frame \div PAGE_SIZE < total_frames
    /\ frame_calls < MaxFrameCalls
    /\ SetFrames(free_frame(FrameState, frame))
    /\ held' = held \ {frame}
    /\ frame_last' = [NoFrameCall EXCEPT !.op = "free_frame", !.ret = frame,
                                         !.was_held = frame \in held]
    /\ frame_calls' = frame_calls + 1
    /\ UNCHANGED reserved

NextPaging ==
    \/ \E size \in HeapFillSizes : frame_last.op = "none" /\ live = {} /\ Kmalloc(size)
    \/ \E mem_size \in PagingMemSizes, pg \in BOOLEAN : PagingInit(mem_size, pg)
    \/ frame_last.op # "none" /\ AllocFrame
    \/ \E frame \in held : FreeFrame(frame)
    \/ \E frame \in AnyFrames : FreeAnyFrame(frame)

SpecPaging == InitPaging /\ [][NextPaging]_vars

(* Callers of map_page and unmap_page on the directory paging_init has made; *)
(* a caller may have taken most of the heap, so that a page table cannot be  *)
(* allocated.                                                                *)

InitMap == InitMemory /\ InitCaller("map")

MapPage(virt_addr, phys_addr, flags) ==
    /\ Running
    /\ current_directory # NULL
    /\ mem_stats.fragmentation_count < MaxFailedAllocs
    /\ SetPaging(map_page(CallStart(PagingState), virt_addr, phys_addr, flags))
    /\ frame_last' = [op |-> "map_page", ret |-> virt_addr, found |-> FALSE, start |-> 0,
                      was_held |-> FALSE, phys_addr |-> phys_addr, flags |-> flags]
    /\ UNCHANGED <<held, reserved, frame_calls>>

UnmapPage(virt_addr) ==
    /\ Running
    /\ current_directory # NULL
    /\ SetPaging(unmap_page(CallStart(PagingState), virt_addr))
    /\ frame_last' = [NoFrameCall EXCEPT !.op = "unmap_page", !.ret = virt_addr]
    /\ UNCHANGED <<held, reserved, frame_calls>>

NextMap ==
    \/ PagingInit(MIN_PAGING_MEM, FALSE)
    \/ \E size \in MapFillSizes : frame_last.op = "paging_init" /\ live = {} /\ Kmalloc(size)
    \/ \E virt_addr \in MapVirtAddrs, phys_addr \in MapPhysAddrs, flags \in MapFlags :
          MapPage(virt_addr, phys_addr, flags)
    \/ \E virt_addr \in MapVirtAddrs : UnmapPage(virt_addr)

SpecMap == InitMap /\ [][NextMap]_vars

(* Callers of verify_heap_integrity: before and after paging_init has set   *)
(* total_frames, between ordinary allocations and frees.                    *)

InitVerify == InitMemory /\ InitCaller("verify")

\* verify_heap_integrity(): last.ret is 1 for true and 0 for false
VerifyHeapIntegrity ==
    /\ Running
    /\ last' = [NoCall EXCEPT !.op = "verify_heap_integrity",
                              !.arg = total_frames,
                              !.ret = IF verify_heap_integrity(HeapState, total_frames)
                                      THEN 1 ELSE 0]
    /\ UNCHANGED <<heapVars, live, freed, aligned_live, misuse, scen, harness, in_progress>>
    /\ UNCHANGED <<frameVars, slabVars>>

NextVerify ==
    \/ \E size \in ReqSizes : Kmalloc(size)
    \/ \E p \in live : Kfree(p)
    \/ \E mem_size \in VerifyMemSizes : PagingInit(mem_size, TRUE)
    \/ VerifyHeapIntegrity

SpecVerify == InitVerify /\ [][NextVerify]_vars

(* The callers of one cache, created right after heap_init *)

SlabState == [h |-> HeapState, c |-> cachep, chain |-> cache_chain, ret |-> NULL]

InitCache(k) ==
    /\ mem = k.h.mem
    /\ heap_head = k.h.head
    /\ heap_tail = k.h.tail
    /\ mem_stats = k.h.stats
    /\ panic_msg = k.h.panic
    /\ cachep = k.c
    /\ cache_chain = k.chain
    /\ cache_chain_lock = k.h.lock

InitSlab ==
    /\ kernel_heap_start \in HeapStarts
    /\ total_frames = 0
    /\ InitNoFrames
    /\ \E cfg \in CacheConfigs :
          InitCache(kmem_cache_create(heap_init(kernel_heap_start), <<>>, cfg[1], 0, cfg[2]))
    /\ InitCacheCaller
    /\ InitCaller("slab")

SetSlab(k) ==
    /\ SetHeap(k.h)
    /\ cachep' = k.c
    /\ cache_chain' = k.chain
    /\ cache_chain_lock' = k.h.lock
    /\ other_cache' = other_cache
    /\ kmalloc_caches' = kmalloc_caches
    /\ UNCHANGED <<callerVars, frameVars>>

\* the slabs on the three lists of a descriptor
SlabsOf(c) ==
    {c.slabs_full[i] : i \in 1 .. Len(c.slabs_full)}
        \cup {c.slabs_partial[i] : i \in 1 .. Len(c.slabs_partial)}
        \cup {c.slabs_free[i] : i \in 1 .. Len(c.slabs_free)}

\* the slab whose in-use count the call that led to k has raised
TakenFrom(k) ==
    CHOOSE sl \in SlabsOf(k.c) :
        \/ sl \notin slabs_made
        \/ Rd32(k.h.mem, sl + S_INUSE) # Rd32(mem, sl + S_INUSE)

ScenAfterAlloc(k) ==
    IF slab_scen.stage # "filling" THEN [NoSlabScen EXCEPT !.stage = "off"]
    ELSE IF k.h.panic # "" THEN slab_scen
    ELSE IF k.ret = NULL THEN [slab_scen EXCEPT !.stage = "failed"]
    ELSE [slab_scen EXCEPT !.n = @ + 1]

CacheAllocReturns(k) ==
    /\ SetSlab(k)
    /\ objs' = IF k.h.panic = "" /\ k.ret # NULL THEN (k.ret :> TakenFrom(k)) @@ objs ELSE objs
    /\ slabs_made' = slabs_made \cup SlabsOf(k.c)
    /\ slab_last' = [NoCacheCall EXCEPT !.op = "alloc", !.ret = k.ret]
    /\ slab_scen' = ScenAfterAlloc(k)

CacheAlloc(junk, faults) ==
    /\ Running
    /\ cache_calls < MaxCacheAllocs
    /\ CacheAllocReturns(kmem_cache_alloc(SlabState, junk, faults))
    /\ cache_calls' = cache_calls + 1

ScenAfterFree(obj) ==
    IF slab_scen.stage = "filling" /\ slab_scen.n > 0 /\ slab_scen.n % cachep.num = 0
    THEN [slab_scen EXCEPT !.stage = "emptying", !.slab = objs[obj],
                           !.left = {o \in DOMAIN objs : objs[o] = objs[obj]} \ {obj}]
    ELSE IF slab_scen.stage = "emptying" /\ obj \in slab_scen.left
    THEN [slab_scen EXCEPT !.left = @ \ {obj}]
    ELSE [NoSlabScen EXCEPT !.stage = "off"]

CacheFreeReturns(k, obj) ==
    /\ SetSlab(k)
    /\ objs' = IF k.h.panic = "" THEN [o \in (DOMAIN objs) \ {obj} |-> objs[o]] ELSE objs
    /\ slab_last' = [NoCacheCall EXCEPT !.op = "free", !.arg = obj, !.slab = objs[obj]]
    /\ slab_scen' = ScenAfterFree(obj)
    /\ UNCHANGED <<slabs_made, cache_calls>>

CacheFree(obj, junk, faults) ==
    /\ Running
    /\ obj \in DOMAIN objs
    /\ CacheFreeReturns(kmem_cache_free(SlabState, obj, junk, faults), obj)

NextSlab ==
    \/ \E junk \in JunkBytes, faults \in BOOLEAN : CacheAlloc(junk, faults)
    \/ \E obj \in DOMAIN objs, junk \in JunkBytes, faults \in BOOLEAN :
          CacheFree(obj, junk, faults)

SpecSlab == InitSlab /\ [][NextSlab]_vars

(* A kmem_cache_alloc call that finds no slab releases the lock, grows the  *)
(* cache and takes the lock again (slab.c:307-315).  An interrupt may       *)
(* suspend it where the lock is not held, before cache_grow and after it;   *)
(* the handler calls kmem_cache_alloc and kmem_cache_free to completion.    *)

InitInterrupted ==
    /\ kernel_heap_start \in HeapStarts
    /\ total_frames = 0
    /\ InitNoFrames
    /\ \E cfg \in InterruptedCacheConfigs :
          InitCache(kmem_cache_create(heap_init(kernel_heap_start), <<>>, cfg[1], 0, cfg[2]))
    /\ InitCacheCaller
    /\ InitCaller("interrupted")

SetSlabOfCall(k) ==
    /\ SetHeap(k.h)
    /\ cachep' = k.c
    /\ cache_chain' = k.chain
    /\ cache_chain_lock' = k.h.lock
    /\ UNCHANGED <<other_cache, kmalloc_caches, slab_scen>>
    /\ UNCHANGED <<live, freed, aligned_live, misuse, last, scen, harness, frameVars>>

\* the call finds both lists empty and releases the lock
CacheAllocUnlock ==
    /\ Running
    /\ in_progress.pc = "idle"
    /\ cache_calls < MaxInterruptedAllocs
    /\ cachep.addr # NULL
    /\ list_empty(cachep.slabs_partial)
    /\ list_empty(cachep.slabs_free)
    /\ in_progress' = [NoCallInProgress EXCEPT !.pc = "unlocked"]
    /\ cache_calls' = cache_calls + 1
    /\ cache_chain_lock' = spin_unlock(spin_lock(HeapState)).lock
    /\ UNCHANGED <<heapVars, frameVars>>
    /\ UNCHANGED <<live, freed, aligned_live, misuse, last, scen, harness>>
    /\ UNCHANGED <<cachep, cache_chain, other_cache, kmalloc_caches, objs, slabs_made,
                   slab_last, slab_scen>>

\* cache_grow has answered with g: the call returns NULL, or stands before
\* the second spin_lock
CacheAllocGrowReturns(g) ==
    /\ SetSlabOfCall(IF g.h.panic = "" /\ g.ret < 0
                     THEN [g EXCEPT !.c.stats.errors = Add32(@, 1), !.ret = NULL]
                     ELSE g)
    /\ slabs_made' = slabs_made \cup SlabsOf(g.c)
    /\ slab_last' = [NoCacheCall EXCEPT !.op = "grow", !.ret = g.ret]
    /\ in_progress' = [in_progress EXCEPT !.pc = IF g.h.panic = "" /\ g.ret = 0
                                                  THEN "grown" ELSE "idle"]
    /\ UNCHANGED <<objs, cache_calls>>

CacheAllocGrow ==
    /\ Running
    /\ in_progress.pc = "unlocked"
    /\ CacheAllocGrowReturns(cache_grow(SlabState))

\* the call has taken the lock again and popped from the first entry of
\* slabs_free; slab: that entry, or NULL when the list was empty, after which
\* the descriptor no longer describes the cache (pc "lost")
CacheAllocRelockReturns(k) ==
    /\ SetSlabOfCall(k)
    /\ slab_last' = [NoCacheCall EXCEPT !.op = "alloc", !.ret = k.ret,
                         !.slab = IF list_empty(cachep.slabs_free) THEN NULL
                                  ELSE list_first_entry(cachep.slabs_free)]
    /\ objs' = IF k.h.panic = "" /\ k.ret # NULL /\ ~list_empty(cachep.slabs_free)
               THEN (k.ret :> list_first_entry(cachep.slabs_free)) @@ objs ELSE objs
    /\ in_progress' = [in_progress EXCEPT !.pc = IF list_empty(cachep.slabs_free)
                                                  THEN "lost" ELSE "idle"]
    /\ UNCHANGED <<slabs_made, cache_calls>>

CacheAllocRelock(junk, faults) ==
    /\ Running
    /\ in_progress.pc = "grown"
    /\ CacheAllocRelockReturns(alloc_relock(SlabState, junk, faults))

NextInterrupted ==
    \/ CacheAllocUnlock
    \/ CacheAllocGrow
    \/ \E junk \in JunkBytes, faults \in BOOLEAN : CacheAllocRelock(junk, faults)
    \/ \E junk \in JunkBytes, faults \in BOOLEAN :
          /\ in_progress.pc # "lost"
          /\ cache_calls < MaxInterruptedAllocs
          /\ CacheAlloc(junk, faults)
    \/ \E obj \in DOMAIN objs, junk \in JunkBytes, faults \in BOOLEAN :
          in_progress.pc # "lost" /\ CacheFree(obj, junk, faults)

SpecInterrupted == InitInterrupted /\ [][NextInterrupted]_vars

(* The callers of two caches of one configuration, created one after the    *)
(* other: objects are taken from the first and handed to kmem_cache_free    *)
(* together with either cache.                                              *)

InitSecondCache(k1, k2) ==
    /\ InitCache([k2 EXCEPT !.c = k1.c])
    /\ other_cache = k2.c

TwoCachesFrom(k1, cfg) ==
    InitSecondCache(k1, kmem_cache_create(k1.h, k1.chain, cfg[1], 0, cfg[2]))

InitTwoCaches ==
    /\ kernel_heap_start \in HeapStarts
    /\ total_frames = 0
    /\ InitNoFrames
    /\ \E cfg \in CacheConfigs :
          TwoCachesFrom(kmem_cache_create(heap_init(kernel_heap_start), <<>>, cfg[1], 0, cfg[2]),
                        cfg)
    /\ kmalloc_caches = NoKmallocCaches
    /\ objs = <<>>
    /\ slabs_made = {}
    /\ slab_last = NoCacheCall
    /\ slab_scen = NoSlabScen
    /\ cache_calls = 0
    /\ InitCaller("two_caches")

\* the state after kmem_cache_free(other_cache, obj) has left k
SetSlabOther(k) ==
    /\ SetHeap(k.h)
    /\ other_cache' = k.c
    /\ cache_chain' = k.chain
    /\ cache_chain_lock' = k.h.lock
    /\ cachep' = cachep
    /\ kmalloc_caches' = kmalloc_caches
    /\ UNCHANGED <<callerVars, frameVars>>

CacheFreeViaReturns(k, own, obj, junk, faults) ==
    /\ IF own THEN SetSlab(k) ELSE SetSlabOther(k)
    /\ objs' = IF k.h.panic = "" THEN [o \in (DOMAIN objs) \ {obj} |-> objs[o]] ELSE objs
    /\ slab_last' = [op |-> IF own THEN "free_own" ELSE "free_other", arg |-> obj,
                     ret |-> 0, slab |-> objs[obj], junk |-> junk, faults |-> faults]
    /\ slab_scen' = [NoSlabScen EXCEPT !.stage = "off"]
    /\ UNCHANGED <<slabs_made, cache_calls>>

\* kmem_cache_free(cachep, obj) when own, kmem_cache_free(other_cache, obj) otherwise
CacheFreeVia(own, obj, junk, faults) ==
    /\ Running
    /\ obj \in DOMAIN objs
    /\ CacheFreeViaReturns(
          kmem_cache_free([SlabState EXCEPT !.c = IF own THEN cachep ELSE other_cache],
                          obj, junk, faults),
          own, obj, junk, faults)

NextTwoCaches ==
    \/ \E junk \in JunkBytes, faults \in BOOLEAN :
          cache_calls < MaxTwoCacheAllocs /\ CacheAlloc(junk, faults)
    \/ \E own \in BOOLEAN, obj \in DOMAIN objs, junk \in JunkBytes, faults \in BOOLEAN :
          CacheFreeVia(own, obj, junk, faults)

SpecTwoCaches == InitTwoCaches /\ [][NextTwoCaches]_vars

(* Callers that create caches of any object size, with and without the       *)
(* cache-line flag, among ordinary allocations and frees.                    *)

InitCreate == InitMemory /\ InitCaller("create")

\* what the caller keeps of a kmem_cache_create call that left k: the new
\* descriptor if there is one
CacheCreateReturns(k, size, flags) ==
    /\ SetSlab([k EXCEPT !.c = IF k.ret = NULL THEN cachep ELSE k.c])
    /\ slab_last' = [op |-> "create", arg |-> size, ret |-> k.ret, slab |-> 0,
                     flags |-> flags]
    /\ UNCHANGED <<objs, slabs_made, slab_scen, cache_calls>>

CacheCreate(size, flags) ==
    /\ Running
    /\ Len(cache_chain) < MaxCaches
    /\ mem_stats.total_allocations < MaxCreateAllocs
    /\ CacheCreateReturns(kmem_cache_create(HeapState, cache_chain, size, 0, flags),
                          size, flags)

NextCreate ==
    \/ \E size \in ReqSizes : Kmalloc(size)
    \/ \E p \in live : Kfree(p)
    \/ \E size \in CreateSizes, flags \in CreateFlags : CacheCreate(size, flags)

SpecCreate == InitCreate /\ [][NextCreate]_vars

(* The callers of the size classes: slab_init runs after some heap activity, *)
(* kmalloc_slab may be called before or after it.                            *)

InitSizeClasses == InitMemory /\ InitCaller("size_classes")

ClassState == [h |-> HeapState, chain |-> cache_chain, caches |-> kmalloc_caches]

SlabInitReturns(q) ==
    /\ SetHeap(q.h)
    /\ cache_chain' = q.chain
    /\ cache_chain_lock' = q.h.lock
    /\ kmalloc_caches' = q.caches
    /\ slab_last' = [NoCacheCall EXCEPT !.op = "slab_init"]
    /\ UNCHANGED <<cachep, other_cache, objs, slabs_made, slab_scen, cache_calls>>
    /\ UNCHANGED <<callerVars, frameVars>>

SlabInit ==
    /\ Running
    /\ slab_last.op # "slab_init"
    /\ SlabInitReturns(slab_init(ClassState))

KmallocSlabReturns(k, size, i) ==
    /\ SetHeap(k.h)
    /\ cache_chain' = k.chain
    /\ cache_chain_lock' = k.h.lock
    /\ kmalloc_caches' = IF k.c.addr # NULL THEN [kmalloc_caches EXCEPT ![i] = k.c]
                         ELSE kmalloc_caches
    /\ objs' = IF k.h.panic = "" /\ k.ret # NULL THEN (k.ret :> i) @@ objs ELSE objs
    /\ slab_last' = [NoCacheCall EXCEPT !.op = "kmalloc_slab", !.arg = size, !.ret = k.ret]
    /\ UNCHANGED <<cachep, other_cache, slabs_made, slab_scen>>
    /\ UNCHANGED <<callerVars, frameVars>>

KmallocSlab(size, junk, faults) ==
    /\ Running
    /\ cache_calls < MaxKmallocSlabCalls
    /\ KmallocSlabReturns(kmalloc_slab(ClassState, size, junk, faults), size,
                          class_index(kmalloc_caches, size, 0))
    /\ cache_calls' = cache_calls + 1

NextSizeClasses ==
    \/ \E size \in ReqSizes : slab_last.op = "none" /\ Kmalloc(size)
    \/ \E p \in live : slab_last.op = "none" /\ Kfree(p)
    \/ SlabInit
    \/ \E size \in SlabRequestSizes, junk \in JunkBytes, faults \in BOOLEAN :
          KmallocSlab(size, junk, faults)

SpecSizeClasses == InitSizeClasses /\ [][NextSizeClasses]_vars

(* The callers of kmem_cache_alloc_bulk on one cache; a caller may first    *)
(* take most of the heap, so that the cache can grow by one slab only.      *)

InitBulk ==
    /\ kernel_heap_start \in HeapStarts
    /\ total_frames = 0
    /\ InitNoFrames
    /\ \E cfg \in CacheConfigs :
          InitCache(kmem_cache_create(heap_init(kernel_heap_start), <<>>, cfg[1], 0, cfg[2]))
    /\ InitCacheCaller
    /\ InitCaller("bulk")

\* the slab an object was taken from: the one whose header holds the cache and
\* whose slots include the object
SlabOfObject(k, obj) ==
    IF \E sl \in SlabsOf(k.c) : obj \in {Rd32(k.h.mem, sl + S_MEM) + i * k.c.object_size :
                                            i \in 0 .. (k.c.num - 1)}
    THEN CHOOSE sl \in SlabsOf(k.c) :
             obj \in {Rd32(k.h.mem, sl + S_MEM) + i * k.c.object_size : i \in 0 .. (k.c.num - 1)}
    ELSE NULL

CacheAllocBulkReturns(b, size) ==
    /\ SetSlab(b.k)
    /\ objs' = IF b.k.h.panic = "" /\ b.ret = size
               THEN [o \in (DOMAIN objs) \cup {b.p[i] : i \in 1 .. Len(b.p)} |->
                        SlabOfObject(b.k, o)]
               ELSE objs
    /\ slabs_made' = slabs_made \cup SlabsOf(b.k.c)
    /\ slab_last' = [op |-> "alloc_bulk", arg |-> size, ret |-> b.ret, slab |-> Len(b.p)]
    /\ slab_scen' = [NoSlabScen EXCEPT !.stage = "off"]

CacheAllocBulk(size, junk, faults) ==
    /\ Running
    /\ cache_calls < MaxBulkCalls
    /\ Cardinality(DOMAIN objs) <= MaxHeldObjects
    /\ CacheAllocBulkReturns(kmem_cache_alloc_bulk(SlabState, size, junk, faults), size)
    /\ cache_calls' = cache_calls + 1

NextBulk ==
    \/ \E size \in SlabFillSizes : cache_calls = 0 /\ live = {} /\ Kmalloc(size)
    \/ \E size \in BulkSizes, junk \in JunkBytes, faults \in BOOLEAN :
          CacheAllocBulk(size, junk, faults)
    \/ \E obj \in DOMAIN objs, junk \in JunkBytes, faults \in BOOLEAN :
          CacheFree(obj, junk, faults)

SpecBulk == InitBulk /\ [][NextBulk]_vars

(* The life of a cache: kmem_cache_create on a fresh heap, allocations and   *)
(* frees, single and in bulk, slab_debug_info, kmem_cache_destroy, and       *)
(* kmem_cache_create again; nothing else uses the heap.                      *)

InitLifecycle ==
    /\ kernel_heap_start \in HeapStarts
    /\ total_frames = 0
    /\ InitNoFrames
    /\ \E cfg \in LifecycleConfigs :
          InitCache(kmem_cache_create(heap_init(kernel_heap_start), <<>>, cfg[1], 0, cfg[2]))
    /\ InitCacheCaller
    /\ InitCaller("lifecycle")

CacheFreeBulkReturns(k, p) ==
    /\ SetSlab(k)
    /\ objs' = IF k.h.panic = ""
               THEN [o \in (DOMAIN objs) \ {p[i] : i \in 1 .. Len(p)} |-> objs[o]]
               ELSE objs
    /\ slab_last' = [op |-> "free_bulk", arg |-> Len(p), ret |-> 0, slab |-> 0]
    /\ slab_scen' = [NoSlabScen EXCEPT !.stage = "off"]
    /\ UNCHANGED <<slabs_made, cache_calls>>

CacheFreeBulk(p, junk, faults) ==
    /\ Running
    /\ CacheFreeBulkReturns(kmem_cache_free_bulk(SlabState, p, junk, faults), p)

\* the caller drops its pointer to the cache and to the objects
CacheDestroyReturns(k) ==
    /\ SetSlab([k EXCEPT !.c = IF k.h.panic = "" THEN ZeroCache(NULL) ELSE k.c])
    /\ objs' = IF k.h.panic = "" THEN <<>> ELSE objs
    /\ slabs_made' = IF k.h.panic = "" THEN {} ELSE slabs_made
    /\ slab_last' = [op |-> "destroy", arg |-> cachep.addr, ret |-> 0,
                     slab |-> Cardinality(SlabsOf(cachep))]
    /\ slab_scen' = [NoSlabScen EXCEPT !.stage = "off"]
    /\ UNCHANGED cache_calls

CacheDestroy ==
    /\ Running
    /\ cachep.addr # NULL
    /\ CacheDestroyReturns(kmem_cache_destroy(SlabState))

CacheCreateAgainReturns(k, size, flags) ==
    /\ SetSlab(k)
    /\ slab_last' = [op |-> "create", arg |-> size, ret |-> k.ret, slab |-> 0,
                     flags |-> flags]
    /\ cache_calls' = cache_calls + 1
    /\ UNCHANGED <<objs, slabs_made, slab_scen>>

CacheCreateAgain(size, flags) ==
    /\ Running
    /\ cachep.addr = NULL
    /\ cache_calls < MaxLifecycleCalls
    /\ CacheCreateAgainReturns(kmem_cache_create(HeapState, cache_chain, size, 0, flags),
                               size, flags)

SlabDebugInfoReturns(k) ==
    /\ SetSlab(k)
    /\ slab_last' = [op |-> "debug_info", arg |-> 0, ret |-> 0, slab |-> 0]
    /\ UNCHANGED <<objs, slabs_made, slab_scen, cache_calls>>

SlabDebugInfo ==
    /\ Running
    /\ slab_last.op # "debug_info"
    /\ SlabDebugInfoReturns(slab_debug_info(SlabState))

NextLifecycle ==
    \/ \E junk \in JunkBytes, faults \in BOOLEAN :
          cache_calls < MaxLifecycleCalls /\ cachep.addr # NULL /\ CacheAlloc(junk, faults)
    \/ \E size \in LifecycleBulkSizes, junk \in JunkBytes, faults \in BOOLEAN :
          cache_calls < MaxLifecycleCalls /\ cachep.addr # NULL
              /\ CacheAllocBulk(size, junk, faults)
    \/ \E obj \in DOMAIN objs, junk \in JunkBytes, faults \in BOOLEAN :
          CacheFree(obj, junk, faults)
    \/ \E a \in DOMAIN objs, b \in DOMAIN objs, junk \in JunkBytes, faults \in BOOLEAN :
          a < b /\ CacheFreeBulk(<<a, b>>, junk, faults)
    \/ CacheDestroy
    \/ \E cfg \in LifecycleConfigs : CacheCreateAgain(cfg[1], cfg[2])
    \/ SlabDebugInfo

SpecLifecycle == InitLifecycle /\ [][NextLifecycle]_vars

-----------------------------------------------------------------------------
(* Claims about the free-list heap, checked under SpecHeap (C5: SpecDoubleFree) *)

InitialFreeBytes == KERNEL_HEAP_SIZE - HEAP_HDR

\* C1: in every sequence of kmalloc and kfree calls that frees each returned
\* pointer exactly once, no call panics, and once every pointer has been freed
\* verify_heap_integrity() is true and the free payload bytes are those heap_init left.
C1_BalancedSequenceRestoresHeap ==
    /\ panic_msg = ""
    /\ live = {} =>
          /\ verify_heap_integrity(HeapState, total_frames)
          /\ FreeBytes(HeapState) = InitialFreeBytes

\* C2: between calls, every block of the chain stores the checksum of its
\* current header fields, also a block whose prev link a neighbour's split or
\* merge rewrote.
C2_ChecksumsMatch ==
    \A b \in ChainSet(mem, heap_head) :
        B_checksum(mem, b) = calculate_block_checksum(mem, b)

NoAdjacentFree ==
    \A b \in ChainSet(mem, heap_head) :
        (B_used(mem, b) = 0 /\ B_next(mem, b) # NULL) => B_used(mem, B_next(mem, b)) # 0

\* C3: after every kfree call that returns, no two neighbouring blocks of the
\* chain are both free.
C3_NoAdjacentFreeAfterKfree ==
    (last.op = "kfree" /\ Running) => NoAdjacentFree

\* a kfree has returned after merging the block with both neighbours
C3_Witness == last.op = "kfree" /\ Running /\ last.ret = 2

\* one free block stands where A, B and C were, of their payloads plus two headers
TripleMerged ==
    /\ scen.a \in ChainSet(mem, heap_head)
    /\ B_used(mem, scen.a) = 0
    /\ B_size(mem, scen.a) = scen.sum + 2 * HEAP_HDR
    /\ B_next(mem, scen.a) # NULL
    /\ B_used(mem, B_next(mem, scen.a)) # 0

C5_DoubleFreeHalts ==
    [][last'.op = "kfree_again" =>
          /\ panic_msg' = "Double free detected"
          /\ UNCHANGED <<mem, heap_head, heap_tail, mem_stats>>]_vars

\* the second kfree has run on a block that the first one merged into its predecessor
C5_Witness ==
    /\ last.op = "kfree_again"
    /\ Sub32(last.arg, HEAP_HDR) \notin ChainSet(mem, heap_head)

-----------------------------------------------------------------------------
(* Claims about the aligned wrapper, checked under SpecAligned *)

\* C6: for every power-of-two alignment from 8 to 4096 and every size the heap
\* can satisfy, kmalloc_aligned returns an address that is a multiple of the
\* alignment, and the kfree_aligned that follows it returns without a panic and
\* frees the one backing block: the chain and its free bytes are those from
\* before the allocation.
C6_AlignedRoundTrip ==
    /\ (last.op = "kmalloc_aligned" /\ last.ret # NULL) =>
          last.ret % last.al = 0
    /\ last.op = "kfree_aligned_rt" =>
          /\ panic_msg = ""
          /\ FreeBytes(HeapState) = last.pre_free
          /\ Chain(mem, heap_head) = last.pre_chain

\* a page-aligned block, carved out of a heap that already holds other blocks,
\* has been allocated and freed again
C6_Witness ==
    /\ last.op = "kfree_aligned_rt"
    /\ last.al = 4096
    /\ Len(last.pre_chain) > 1

-----------------------------------------------------------------------------
(* Claims about the SLAB allocator, checked under SpecSlab *)

\* how often x occurs in the sequence l
Occurrences(l, x) == Cardinality({i \in 1 .. Len(l) : l[i] = x})

OnList(l, x) == Occurrences(l, x) = 1
OffList(l, x) == Occurrences(l, x) = 0

Inuse(sl) == Rd32(mem, sl + S_INUSE)

\* C7: after any sequence of kmem_cache_alloc and kmem_cache_free calls on one
\* cache, every slab the cache has grown is on exactly one of the three lists,
\* and on the one its in-use count names: slabs_free for 0, slabs_full for num,
\* slabs_partial otherwise.
C7_ListFollowsInuse ==
    \A sl \in slabs_made :
        IF Inuse(sl) = 0
        THEN OnList(cachep.slabs_free, sl) /\ OffList(cachep.slabs_full, sl)
                /\ OffList(cachep.slabs_partial, sl)
        ELSE IF Inuse(sl) = cachep.num
        THEN OnList(cachep.slabs_full, sl) /\ OffList(cachep.slabs_free, sl)
                /\ OffList(cachep.slabs_partial, sl)
        ELSE OnList(cachep.slabs_partial, sl) /\ OffList(cachep.slabs_free, sl)
                /\ OffList(cachep.slabs_full, sl)

\* a kmem_cache_free has just taken a slab of a one-object cache from the full
\* list to the free list, while another slab stays full
C7_Witness ==
    /\ slab_last.op = "free"
    /\ panic_msg = ""
    /\ cachep.num = 1
    /\ OnList(cachep.slabs_free, slab_last.slab)
    /\ cachep.slabs_full # <<>>

\* C8: on a fresh cache, k*num allocations leave exactly k slabs, all on the
\* full list; freeing then every object of one of them takes that slab to the
\* free list and leaves the other k-1 on the full list; no call of the scenario
\* fails or halts the system.
C8_FillThenEmptyOneSlab ==
    /\ slab_scen.stage \in {"filling", "emptying"} => panic_msg = ""
    /\ slab_scen.stage # "failed"
    /\ (slab_scen.stage = "filling" /\ slab_scen.n > 0 /\ slab_scen.n % cachep.num = 0) =>
          /\ Len(cachep.slabs_full) = slab_scen.n \div cachep.num
          /\ cachep.slabs_partial = <<>>
          /\ cachep.slabs_free = <<>>
          /\ \A sl \in slabs_made : OnList(cachep.slabs_full, sl)
    /\ (slab_scen.stage = "emptying" /\ slab_scen.left = {}) =>
          /\ cachep.slabs_free = <<slab_scen.slab>>
          /\ cachep.slabs_partial = <<>>
          /\ Len(cachep.slabs_full) = (slab_scen.n \div cachep.num) - 1
          /\ \A sl \in slabs_made \ {slab_scen.slab} : OnList(cachep.slabs_full, sl)

\* the free list of a slab followed from p for at most fuel links; <<NULL>> ends
\* the result when a link cannot be followed or the fuel runs out
RECURSIVE FreeSlots(_, _)
FreeSlots(p, fuel) ==
    IF p = NULL THEN <<>>
    ELSE IF fuel = 0 \/ ~InArena(p) \/ ~({p, p + 1, p + 2, p + 3} \subseteq DOMAIN mem)
    THEN <<NULL>>
    ELSE <<p>> \o FreeSlots(Rd32(mem, p), fuel - 1)

FreeListOf(sl) == FreeSlots(Rd32(mem, sl + S_FREELIST), cachep.num)

SlotsOf(sl) == {Rd32(mem, sl + S_MEM) + i * cachep.object_size : i \in 0 .. (cachep.num - 1)}

\* C9: for every slab, the in-use count plus the length of its embedded free
\* list is the cache's objects-per-slab, and the free list holds slots of the
\* slab, none of them twice.
C9_InusePlusFreeIsNum ==
    \A sl \in slabs_made :
        /\ Inuse(sl) + Len(FreeListOf(sl)) = cachep.num
        /\ \A i \in 1 .. Len(FreeListOf(sl)) : FreeListOf(sl)[i] \in SlotsOf(sl)
        /\ \A i, j \in 1 .. Len(FreeListOf(sl)) :
              FreeListOf(sl)[i] = FreeListOf(sl)[j] => i = j

-----------------------------------------------------------------------------
(* Claims about the frame allocator, checked under SpecFrame *)

\* C10: while only allocated frames are freed, alloc_frame never returns the
\* address of a frame that a caller still holds, and once every allocated frame
\* has been freed used_frames is 0.
C10_FramesNotReissued ==
    /\ frame_last.op \in {"alloc_frame", "alloc_frames"} => ~frame_last.was_held
    /\ (held \cup reserved = {}) => used_frames = 0

\* alloc_frame wrapped round the end of the bitmap and handed out a freed frame
C10_Witness ==
    /\ frame_last.op = "alloc_frame"
    /\ frame_last.found
    /\ frame_last.ret \div PAGE_SIZE < frame_last.start
    /\ held # {frame_last.ret}

\* the frames whose bit is set in the bitmap
SetBits == UNION {{w * BITS_PER_WORD + b : b \in frame_bitmap[w]} : w \in DOMAIN frame_bitmap}

-----------------------------------------------------------------------------
(* Claims about paging_init and the frame allocator, checked under SpecPaging *)

\* C11: once paging_init has set the frame allocator up, after any sequence of
\* alloc_frame calls and of free_frame calls on in-range frame addresses, the
\* number of set bits of the frame bitmap equals used_frames.
C11_SetBitsEqualUsedFrames ==
    (frame_last.op # "none" /\ frame_last.op # "paging_init") =>
        Cardinality(SetBits) = used_frames

\* the frame numbers held by page-table entries marked present
PresentFrames ==
    UNION {{page_tables[t][i].frame : i \in {j \in DOMAIN page_tables[t] :
                                                page_tables[t][j].present = 1}} :
              t \in DOMAIN page_tables}

\* C12: in every state reached once paging_init has returned, every page-table
\* entry marked present holds a frame number whose bit is set in the frame
\* bitmap.
C12_PresentFramesAreUsed ==
    (frame_last.op # "none" /\ panic_msg = "") => PresentFrames \subseteq SetBits

\* C13: paging_init with a memory size below 4 MB halts with the
\* insufficient-memory panic, and total_frames, used_frames, last_alloc_frame,
\* the frame bitmap, the heap and the page directory and tables are as before
\* the call.
C13_SmallMemoryHalts ==
    [][(frame_last'.op = "paging_init" /\ frame_last.op = "none"
            /\ frame_last'.ret < MIN_PAGING_MEM) =>
          /\ panic_msg' = "Insufficient memory for paging (minimum 4MB required)"
          /\ UNCHANGED <<total_frames, used_frames, last_alloc_frame, frame_bitmap,
                         mem, heap_head, heap_tail, mem_stats, pagingVars>>]_vars

\* paging_init(2MB) has halted the system, on a heap a caller had already used
C13_Witness ==
    /\ frame_last.op = "paging_init"
    /\ frame_last.ret < MIN_PAGING_MEM
    /\ panic_msg = "Insufficient memory for paging (minimum 4MB required)"
    /\ live # {}
    /\ total_frames = 0

\* C14: when a heap allocation made during paging_init has failed (the frame
\* bitmap, the page directory, or a page table map_page creates), the system
\* has halted through panic and nothing was written through the null pointer.
C14_AllocationFailureHalts ==
    (frame_last.op = "paging_init" /\ mem_stats.fragmentation_count > 0) =>
        /\ panic_msg # ""
        /\ NULL \notin DOMAIN page_tables

\* C19: after mm_init, that is heap_init followed by a paging_init for 128 MB
\* that returns, verify_heap_integrity() returns true.
C19_HeapIntactAfterMmInit ==
    (frame_last.op = "paging_init" /\ frame_last.ret = MM_INIT_MEM /\ live = {}
        /\ panic_msg = "") =>
        verify_heap_integrity(HeapState, total_frames)

\* mm_init has returned: the bitmap covers 32768 frames, the directory and the
\* page table of the first 4 MB were taken from the heap
C19_Witness ==
    /\ frame_last.op = "paging_init"
    /\ frame_last.ret = MM_INIT_MEM
    /\ live = {}
    /\ panic_msg = ""
    /\ total_frames = 32768
    /\ current_directory # NULL
    /\ mem_stats.total_allocations = 3
    /\ Len(Chain(mem, heap_head)) = 4

-----------------------------------------------------------------------------
(* Claims about bulk allocation, checked under SpecBulk *)

\* C15: kmem_cache_alloc_bulk(cache, flags, n, p) is all-or-nothing: either it
\* returns n and has handed out n distinct objects, or it returns a value other
\* than n and stats.active and the in-use count of every slab the cache had
\* before the call are as before the call; it does not halt the system.
C15_BulkAllOrNothing ==
    [][slab_last'.op = "alloc_bulk" /\ cache_calls' = cache_calls + 1 =>
          /\ panic_msg' = ""
          /\ \/ /\ slab_last'.ret = slab_last'.arg
                /\ Cardinality((DOMAIN objs') \ (DOMAIN objs)) = slab_last'.arg
                /\ cachep'.stats.active = cachep.stats.active + slab_last'.arg
             \/ /\ slab_last'.ret # slab_last'.arg
                /\ cachep'.stats.active = cachep.stats.active
                /\ \A sl \in slabs_made :
                      Rd32(mem', sl + S_INUSE) = Rd32(mem, sl + S_INUSE)
                /\ \A sl \in slabs_made' \ slabs_made : Rd32(mem', sl + S_INUSE) = 0]_vars

-----------------------------------------------------------------------------
(* Claims about failing requests, checked under SpecExhaust *)

\* the free blocks of the chain
FreeBlocks(m, head) == {b \in ChainSet(m, head) : B_used(m, b) = 0}

\* no free block of the heap has a payload of at least size bytes
NoBlockHolds(size) == \A b \in FreeBlocks(mem, heap_head) : ULt(B_size(mem, b), size)

\* C16: a kmalloc that fails returns null without halting and leaves the block
\* chain, heap_head, heap_tail and the counters as they were, except that a
\* non-zero request counts one in fragmentation_count; kmalloc(0) fails, and so
\* does every request that no free block can hold.
C16_FailingKmallocChangesNothing ==
    [][last'.op = "kmalloc" =>
          /\ (last'.arg = 0 \/ NoBlockHolds(last'.arg)) => last'.ret = NULL
          /\ last'.ret = NULL =>
                /\ panic_msg' = ""
                /\ mem' = mem /\ heap_head' = heap_head /\ heap_tail' = heap_tail
                /\ \/ last'.arg = 0 /\ mem_stats' = mem_stats
                   \/ /\ last'.arg # 0
                      /\ mem_stats' = [mem_stats EXCEPT !.fragmentation_count = @ + 1]
                   \/ UNCHANGED vars]_vars

-----------------------------------------------------------------------------
(* Claims about two caches, checked under SpecTwoCaches *)

\* the slab header kmem_cache_free finds by masking the object to its page
HeaderOf(obj) == AndNotMask(obj, PAGE_SIZE)

\* C17: whenever the slab header found by masking obj to its page can be read
\* and has a wrong magic value or names another cache than the one handed to
\* kmem_cache_free, the call halts with the invalid-object panic and memory
\* (every free list and in-use count) and both cache descriptors (list
\* membership, statistics) are as before the call.
C17_InvalidObjectHalts ==
    [][(/\ slab_last'.op \in {"free_own", "free_other"}
        /\ InArena(HeaderOf(slab_last'.arg)) \/ ~slab_last'.faults
        /\ \/ Deref32(mem, HeaderOf(slab_last'.arg) + S_MAGIC, slab_last'.junk)
                 # SLAB_RED_MAGIC1
           \/ Deref32(mem, HeaderOf(slab_last'.arg) + S_CACHE, slab_last'.junk)
                 # (IF slab_last'.op = "free_own" THEN cachep.addr ELSE other_cache.addr)) =>
          /\ panic_msg' = "Invalid object passed to kmem_cache_free"
          /\ mem' = mem
          /\ cachep' = cachep
          /\ other_cache' = other_cache]_vars

\* an object of a full slab of the first cache was handed to kmem_cache_free
\* together with the second cache: the header has the right magic value and
\* names the first cache, and the system has halted
C17_Witness ==
    /\ slab_last.op = "free_other"
    /\ panic_msg = "Invalid object passed to kmem_cache_free"
    /\ Rd32(mem, HeaderOf(slab_last.arg) + S_MAGIC) = SLAB_RED_MAGIC1
    /\ Rd32(mem, HeaderOf(slab_last.arg) + S_CACHE) = cachep.addr
    /\ other_cache.addr # cachep.addr
    /\ other_cache.addr # NULL
    /\ OnList(cachep.slabs_full, HeaderOf(slab_last.arg))

-----------------------------------------------------------------------------
(* Claims about the size classes, checked under SpecSizeClasses *)

\* the classes slab_init has created, by index
CreatedClasses == {i \in DOMAIN kmalloc_caches : kmalloc_caches[i].addr # NULL}

\* the object size of the largest class created; 0 when there is none
LargestClass ==
    IF CreatedClasses = {} THEN 0
    ELSE CHOOSE n \in {kmalloc_caches[i].object_size : i \in CreatedClasses} :
             \A i \in CreatedClasses : kmalloc_caches[i].object_size <= n

\* the classes that can hold size bytes
FittingClasses(size) == {i \in CreatedClasses : kmalloc_caches[i].object_size >= size}

\* C18: once slab_init has run, kmalloc_slab serves every size from 1 up to the
\* object size of the largest class created from the smallest class whose
\* object size is at least the size, and its search stops on size grounds only
\* for larger requests: the system is running and the search of kmalloc_slab
\* ends at that class.
C18_RoutesToSmallestClass ==
    slab_last.op = "slab_init" =>
        /\ panic_msg = ""
        /\ \A size \in SlabRequestSizes :
              IF size >= 1 /\ size <= LargestClass
              THEN /\ class_index(kmalloc_caches, size, 0) \in FittingClasses(size)
                   /\ \A i \in FittingClasses(size) :
                         class_index(kmalloc_caches, size, 0) <= i
              ELSE kmalloc_slab(ClassState, size, 0, FALSE).ret = NULL

-----------------------------------------------------------------------------
(* Claims about the shape of the block chain, checked under SpecHeap *)

\* C20: after heap_init and after every kmalloc or kfree that returns, the
\* block chain tiles the arena: heap_head is the block at the arena start, each
\* block ends where its next block starts and the last one at the arena end,
\* prev is the inverse of next, and heap_tail is the block whose next is null.
C20_ChainTilesArena ==
    panic_msg = "" =>
        /\ heap_head = kernel_heap_start
        /\ B_prev(mem, heap_head) = NULL
        /\ heap_tail = Chain(mem, heap_head)[Len(Chain(mem, heap_head))]
        /\ \A i \in 1 .. Len(Chain(mem, heap_head)) :
              /\ Add32(Add32(Chain(mem, heap_head)[i], HEAP_HDR),
                       B_size(mem, Chain(mem, heap_head)[i]))
                    = IF i < Len(Chain(mem, heap_head))
                      THEN Chain(mem, heap_head)[i + 1]
                      ELSE Add32(kernel_heap_start, KERNEL_HEAP_SIZE)
              /\ i < Len(Chain(mem, heap_head)) =>
                    B_prev(mem, Chain(mem, heap_head)[i + 1]) = Chain(mem, heap_head)[i]

\* a kfree has merged the freed block with both neighbours, in a chain that
\* still has used blocks on both sides
C20_Witness ==
    /\ last.op = "kfree"
    /\ last.ret = 2
    /\ panic_msg = ""
    /\ Len(Chain(mem, heap_head)) >= 3
    /\ B_used(mem, heap_head) = 1

-----------------------------------------------------------------------------
(* Claims about the aligned wrapper under any size and alignment, checked    *)
(* under SpecAlignedRequests                                                 *)

\* the hidden word below a: the header the wrapper recorded for a
HiddenBlock(a) == Rd32(mem, Sub32(a, 4))

\* the used blocks of the chain after a step that were not used blocks before it
NewlyUsed ==
    {b \in ChainSet(mem', heap_head') :
        /\ B_used(mem', b) # 0
        /\ b \notin ChainSet(mem, heap_head) \/ B_used(mem, b) = 0}

\* the two hidden words below a lie inside the payload of block b
HiddenInside(m, b, a) ==
    /\ UGe(Sub32(a, Add32(b, HEAP_HDR)), ALIGN_HIDDEN)
    /\ UGe(B_size(m, b), Sub32(a, Add32(b, HEAP_HDR)))

\* C21: for every live pointer a returned by kmalloc_aligned, the hidden word
\* just before a holds the address of a used block of the chain, the block the
\* allocation took (its header plus the header size is what kmalloc returned),
\* and both hidden words lie inside that block's payload, before a.
C21_HiddenWordNamesBlock ==
    \A a \in aligned_live :
        /\ HiddenBlock(a) \in ChainSet(mem, heap_head)
        /\ B_used(mem, HiddenBlock(a)) # 0
        /\ HiddenInside(mem, HiddenBlock(a), a)

\* the 32-bit words with exactly one bit set (2^31 reads as -2^31)
PowersOfTwo == {2^k : k \in 0..30} \cup {-2147483647 - 1}

\* C22: kmalloc_aligned returns null without allocating anything from the heap
\* (memory, chain ends and statistics are left as they were, and nothing
\* halts) when size is 0, alignment is 0, or alignment is not a power of two.
C22_RejectedRequestAllocatesNothing ==
    [][(/\ last'.op = "kmalloc_aligned"
        /\ last'.arg = 0 \/ last'.al \notin PowersOfTwo)
       => /\ last'.ret = NULL
          /\ UNCHANGED <<mem, heap_head, heap_tail, mem_stats, panic_msg>>
          /\ aligned_live' = aligned_live]_vars

\* a request with alignment 12 was turned down on a heap that holds several
\* blocks, one of them a live aligned allocation
C22_Witness ==
    /\ last.op = "kmalloc_aligned"
    /\ last.arg = 100
    /\ last.al = 12
    /\ last.ret = NULL
    /\ Len(last.pre_chain) > 1
    /\ aligned_live # {}

-----------------------------------------------------------------------------
(* Claims about cache creation, checked under SpecCreate *)

\* an object size kmem_cache_create is to turn down: zero, above
\* KMALLOC_MAX_SIZE, or more than an order-0 slab holds behind its header
NoObjectFits(size) ==
    \/ size = 0
    \/ UGt(size, KMALLOC_MAX_SIZE)
    \/ UGt(size, PAGE_SIZE - SLAB_HDR)

\* C23: kmem_cache_create returns no cache, adds nothing to the global cache
\* chain and leaves the heap's free bytes unchanged when the object size is
\* zero, exceeds KMALLOC_MAX_SIZE, or is too large for even one object to fit
\* in an order-0 slab after the slab header, with or without the
\* cache-line-alignment flag.
C23_UnfitSizeCreatesNothing ==
    [][\A size \in CreateSizes, flags \in CreateFlags :
          (CacheCreate(size, flags) /\ NoObjectFits(size))
          => /\ slab_last'.ret = NULL
             /\ cache_chain' = cache_chain
             /\ FreeBytesFrom(mem', heap_head') = FreeBytesFrom(mem, heap_head)]_vars

\* the same, for caches created without the cache-line-alignment flag
C23_UnfitSizeWithoutFlag ==
    [][\A size \in CreateSizes :
          (CacheCreate(size, 0) /\ NoObjectFits(size))
          => /\ slab_last'.ret = NULL
             /\ cache_chain' = cache_chain
             /\ FreeBytesFrom(mem', heap_head') = FreeBytesFrom(mem, heap_head)]_vars

-----------------------------------------------------------------------------
(* Claims about the choice and the splitting of a block, checked under SpecFit *)

\* the free blocks of the chain whose payload is at least size
Candidates(m, head, size) ==
    {c \in ChainSet(m, head) : B_used(m, c) = 0 /\ UGe(B_size(m, c), size)}

\* b has the smallest payload among the candidates, and the lowest address
\* among those of that payload
SmallestCandidate(m, head, size, b) ==
    /\ b \in Candidates(m, head, size)
    /\ \A c \in Candidates(m, head, size) :
          /\ UGe(B_size(m, c), B_size(m, b))
          /\ B_size(m, c) = B_size(m, b) => b <= c

SplitOff(b, rs, old, old_chain) ==
    /\ B_size(mem', b) = rs
    /\ B_next(mem', b) = b + HEAP_HDR + rs
    /\ B_used(mem', B_next(mem', b)) = 0
    /\ B_size(mem', B_next(mem', b)) = old - rs - HEAP_HDR
    /\ B_next(mem', B_next(mem', b)) = B_next(mem, b)
    /\ Len(Chain(mem', heap_head')) = Len(old_chain) + 1
    /\ B_next(mem', b) \notin {old_chain[i] : i \in 1..Len(old_chain)}

\* block b has been handed out whole
HandedOutWhole(b, old, old_chain) ==
    /\ B_size(mem', b) = old
    /\ Chain(mem', heap_head') = old_chain

\* C25: kmalloc splits the chosen block exactly when its payload exceeds rounded
\* size + header size + 16: then the used block's payload becomes exactly the
\* rounded size and a new free block of payload (old payload - rounded size -
\* header size) is linked directly after it; otherwise the whole block is handed
\* out with its payload size unchanged and no block is created.
C25_SplitAboveThreshold ==
    [][\A size \in FitSizes :
          (KmallocFit(size) /\ last'.ret # NULL)
          => /\ B_used(mem', Sub32(last'.ret, HEAP_HDR)) # 0
             /\ IF B_size(mem, Sub32(last'.ret, HEAP_HDR)) > RoundSize(size) + HEAP_HDR + MIN_ALLOC
                THEN SplitOff(Sub32(last'.ret, HEAP_HDR), RoundSize(size),
                              B_size(mem, Sub32(last'.ret, HEAP_HDR)), Chain(mem, heap_head))
                ELSE HandedOutWhole(Sub32(last'.ret, HEAP_HDR),
                                    B_size(mem, Sub32(last'.ret, HEAP_HDR)),
                                    Chain(mem, heap_head))]_vars

\* a block whose payload exceeds the request by exactly header size + 16 has
\* been handed out whole
C25_Witness ==
    /\ last.op = "kmalloc"
    /\ last.ret # NULL
    /\ panic_msg = ""
    /\ B_size(mem, Sub32(last.ret, HEAP_HDR)) = RoundSize(last.arg) + HEAP_HDR + MIN_ALLOC
    /\ Chain(mem, heap_head) = last.pre_chain

\* a block has been split and the free block behind it has the minimum payload
\* a split leaves, 20 bytes
C25_SplitWitness ==
    /\ last.op = "kmalloc"
    /\ last.ret # NULL
    /\ panic_msg = ""
    /\ Len(Chain(mem, heap_head)) = Len(last.pre_chain) + 1
    /\ B_size(mem, B_next(mem, Sub32(last.ret, HEAP_HDR))) = MIN_ALLOC + 4

-----------------------------------------------------------------------------
(* Claims about requests of any 32-bit size, checked under SpecExhaust *)

\* C26: for every requested size in the full 32-bit range, kmalloc either
\* returns null or returns a used block whose payload size is at least the
\* requested size (sizes compared as unsigned 32-bit words).
C26_PayloadCoversRequest ==
    (last.op = "kmalloc" /\ last.ret # NULL) =>
        /\ Sub32(last.ret, HEAP_HDR) \in ChainSet(mem, heap_head)
        /\ B_used(mem, Sub32(last.ret, HEAP_HDR)) # 0
        /\ UGe(B_size(mem, Sub32(last.ret, HEAP_HDR)), last.arg)

\* the same for the requests whose rounding does not pass 2^32
C26_PayloadCoversUnwrappedRequest ==
    (last.op = "kmalloc" /\ last.ret # NULL /\ ULt(last.arg, -3)) =>
        /\ Sub32(last.ret, HEAP_HDR) \in ChainSet(mem, heap_head)
        /\ B_used(mem, Sub32(last.ret, HEAP_HDR)) # 0
        /\ UGe(B_size(mem, Sub32(last.ret, HEAP_HDR)), last.arg)

\* the bytes from a - 8 to a + size lie inside the payload of block b
RangeInside(m, b, a, size) ==
    /\ HiddenInside(m, b, a)
    /\ UGe(Sub32(B_size(m, b), Sub32(a, Add32(b, HEAP_HDR))), size)

\* C27: for every 32-bit size > 0 and every power-of-two alignment,
\* kmalloc_aligned either returns null or returns an address a such that the
\* whole range from a - 8 (the hidden words) to a + size lies inside the
\* payload of the single heap block it allocated.
C27_AlignedRangeInsideBlock ==
    [][\A size \in AlignedRequestSizes, alignment \in AlignedRequestAlignments :
          (KmallocAlignedRequest(size, alignment) /\ last'.ret # NULL)
          => /\ Cardinality(NewlyUsed) = 1
             /\ \A b \in NewlyUsed : RangeInside(mem', b, last'.ret, size)]_vars

\* the same for requests whose total size stays below 2^31
C27_AlignedRangeOfSmallRequest ==
    [][\A size \in AlignedRequestSizes, alignment \in AlignedRequestAlignments :
          (/\ KmallocAlignedRequest(size, alignment)
           /\ last'.ret # NULL
           /\ size > 0 /\ size + alignment > 0)
          => /\ Cardinality(NewlyUsed) = 1
             /\ \A b \in NewlyUsed : RangeInside(mem', b, last'.ret, size)]_vars

-----------------------------------------------------------------------------
(* Claims about the heap walk, checked under SpecVerify *)

\* the blocks of the chain that fail the magic/checksum check
BadBlocks == {b \in ChainSet(mem, heap_head) : ~verify_block_integrity(mem, b)}

\* C28: verify_heap_integrity returns false only if some block reachable from
\* heap_head fails its magic/checksum check or the next-chain contains a cycle
\* (the chains of these heaps end at null): on a chain whose blocks all pass
\* the check it returns true regardless of how many blocks the chain has and
\* of the value of total_frames.
C28_FalseOnlyOnBadBlock ==
    (last.op = "verify_heap_integrity" /\ last.ret = 0) => BadBlocks # {}

\* the same once paging_init has set total_frames, for the chains of up to
\* seven blocks these callers build
C28_FalseOnlyOnBadBlockAfterPaging ==
    (last.op = "verify_heap_integrity" /\ last.ret = 0 /\ last.arg > 0) => BadBlocks # {}

-----------------------------------------------------------------------------
(* Claims about the choice of slab, checked under SpecSlab *)

\* the step has added a slab to the lists of the cache
Grown == SlabsOf(cachep') # SlabsOf(cachep)

\* the object the step returned, if any, raised the in-use count of slab sl
TakenFromSlab(sl) == slab_last'.ret # NULL => objs'[slab_last'.ret] = sl

\* C29: kmem_cache_alloc takes its object from a slab on the partial list
\* whenever that list is non-empty, otherwise from a slab on the free list, and
\* allocates a new slab only when both lists are empty; hence the number of
\* slabs of a cache grows only when every existing slab is full.
C29_PartialThenFreeThenGrow ==
    [][(cache_calls' = cache_calls + 1 /\ panic_msg' = "")
       => /\ ~list_empty(cachep.slabs_partial)
                => ~Grown /\ TakenFromSlab(list_first_entry(cachep.slabs_partial))
          /\ (list_empty(cachep.slabs_partial) /\ ~list_empty(cachep.slabs_free))
                => ~Grown /\ TakenFromSlab(list_first_entry(cachep.slabs_free))
          /\ Grown
                => /\ list_empty(cachep.slabs_partial) /\ list_empty(cachep.slabs_free)
                   /\ \A sl \in slabs_made : Inuse(sl) = cachep.num
                   /\ \A sl \in SlabsOf(cachep') \ SlabsOf(cachep) : TakenFromSlab(sl)]_vars

\* the cache has grown a second slab while the first one was full
C29_Witness ==
    /\ slab_last.op = "alloc"
    /\ slab_last.ret # NULL
    /\ panic_msg = ""
    /\ cachep.num > 1
    /\ Cardinality(slabs_made) = 2
    /\ Len(cachep.slabs_full) = 1
    /\ Len(cachep.slabs_partial) = 1
    /\ objs[slab_last.ret] = list_first_entry(cachep.slabs_partial)
    /\ Inuse(objs[slab_last.ret]) = 1

\* the second kmem_cache_alloc has taken its object from the one slab of the
\* cache, which a kmem_cache_free had returned to the free list
C29_FreeListWitness ==
    /\ slab_last.op = "alloc"
    /\ slab_last.ret # NULL
    /\ panic_msg = ""
    /\ cache_calls = 2
    /\ Cardinality(slabs_made) = 1
    /\ Inuse(objs[slab_last.ret]) = 1
    /\ cachep.num > 1

-----------------------------------------------------------------------------
(* Claims about map_page and unmap_page, checked under SpecMap *)

TableIndex(virt_addr) == FrameField(virt_addr) \div PAGE_ENTRIES
EntryIndex(virt_addr) == FrameField(virt_addr) % PAGE_ENTRIES

NotPresent == [frame |-> 0, present |-> 0, rw |-> 0, user |-> 0]

\* the page-table entry the processor reaches for virt_addr: through the
\* directory entry of its 4 MB region to the table in the frame that names
EntryFor(entries, pts, virt_addr) ==
    IF TableIndex(virt_addr) \notin DOMAIN entries THEN NotPresent
    ELSE IF entries[TableIndex(virt_addr)].present = 0 THEN NotPresent
    ELSE IF entries[TableIndex(virt_addr)].frame * PAGE_SIZE \notin DOMAIN pts THEN NotPresent
    ELSE IF EntryIndex(virt_addr)
               \notin DOMAIN pts[entries[TableIndex(virt_addr)].frame * PAGE_SIZE]
    THEN NotPresent
    ELSE pts[entries[TableIndex(virt_addr)].frame * PAGE_SIZE][EntryIndex(virt_addr)]

\* table t without its entry e
Without(table, e) == [x \in (DOMAIN table) \ {e} |-> table[x]]

\* the step has left every page table as it was, but for entry e of table t,
\* and has removed none; a table the step created holds no other entry
OnlyEntryWritten(t, e) ==
    /\ DOMAIN page_tables \subseteq DOMAIN page_tables'
    /\ \A u \in DOMAIN page_tables' :
          IF u = t
          THEN Without(page_tables'[u], e)
                   = (IF u \in DOMAIN page_tables THEN Without(page_tables[u], e) ELSE <<>>)
          ELSE u \in DOMAIN page_tables /\ page_tables'[u] = page_tables[u]

\* the table the directory names for virt_addr after the step
TableAfter(virt_addr) ==
    IF TableIndex(virt_addr) \in DOMAIN dir_tables' THEN dir_tables'[TableIndex(virt_addr)]
    ELSE NULL

Mapped(va, pa, flags) ==
    /\ EntryFor(dir_entries', page_tables', va)
          = [frame |-> pa \div PAGE_SIZE, present |-> 1,
             rw |-> (flags \div 2) % 2, user |-> (flags \div 4) % 2]
    /\ OnlyEntryWritten(TableAfter(va), EntryIndex(va))
    /\ UNCHANGED <<frame_bitmap, used_frames>>

Unmapped(va) ==
    /\ EntryFor(dir_entries', page_tables', va).present = 0
    /\ OnlyEntryWritten(TableAfter(va), EntryIndex(va))
    /\ UNCHANGED <<frame_bitmap, used_frames>>
    /\ UNCHANGED <<dir_tables, dir_entries, mem, mem_stats>>

\* C30: after map_page(dir, va, pa, flags) with the present flag set, the entry
\* for va is present with frame pa>>12 and the writable/user bits taken from
\* flags, replacing any earlier mapping of va; after unmap_page(dir, va) the
\* entry for va is not present; both calls leave every other page-table entry,
\* the frame bitmap and used_frames unchanged, and unmap_page never removes a
\* page table.
C30_MapAndUnmapOneEntry ==
    [][/\ (frame_last'.op = "map_page" /\ panic_msg' = "")
            => Mapped(frame_last'.ret, frame_last'.phys_addr, frame_last'.flags)
       /\ frame_last'.op = "unmap_page" => Unmapped(frame_last'.ret)]_vars

\* the same for the calls made while every page table the directory names is
\* one the heap has supplied
C30_WithTablesFromHeap ==
    [][NULL \notin DOMAIN page_tables'
       => /\ (frame_last'.op = "map_page" /\ panic_msg' = "")
                => Mapped(frame_last'.ret, frame_last'.phys_addr, frame_last'.flags)
          /\ frame_last'.op = "unmap_page" => Unmapped(frame_last'.ret)]_vars

-----------------------------------------------------------------------------
(* Claims about the translation-cache invalidation, checked under SpecMap *)

\* the directory names no page table for the 4 MB region of virt_addr
NoTableFor(virt_addr) ==
    \/ TableIndex(virt_addr) \notin DOMAIN dir_tables
    \/ dir_tables[TableIndex(virt_addr)] = NULL

\* the call has written the entry of virt_addr and then invalidated virt_addr,
\* and has invalidated nothing else
WrittenThenInvalidated(virt_addr) ==
    tlb_log' = <<EntryWrite(TableAfter(virt_addr), EntryIndex(virt_addr)), Invlpg(virt_addr)>>

\* the 1024 map_page calls of paging_init: each writes its entry and then
\* invalidates its own address
IdentityLog ==
    /\ Len(tlb_log') = 2 * IDENTITY_PAGES
    /\ \A i \in 0 .. (IDENTITY_PAGES - 1) :
          /\ tlb_log'[2 * i + 1] = EntryWrite(TableAfter(0), i)
          /\ tlb_log'[2 * i + 2] = Invlpg(i * PAGE_SIZE)

\* C31: every map_page or unmap_page call that changes the page-table entry of
\* a virtual address issues the translation-cache invalidation for exactly that
\* address, after the entry is written and before the call returns;
\* unmap_page on an address whose 4 MB region has no page table changes
\* nothing and invalidates nothing.
C31_InvalidationFollowsWrite ==
    [][/\ (frame_last'.op \in {"map_page", "unmap_page"} /\ panic_msg' = ""
              /\ page_tables' # page_tables)
            => WrittenThenInvalidated(frame_last'.ret)
       /\ (frame_last'.op = "paging_init" /\ panic_msg' = "" /\ page_tables' # page_tables)
            => IdentityLog
       /\ (frame_last'.op = "unmap_page" /\ NoTableFor(frame_last'.ret))
            => /\ tlb_log' = <<>>
               /\ UNCHANGED <<dir_tables, dir_entries, page_tables, current_directory>>
               /\ UNCHANGED <<heapVars, frame_bitmap, used_frames, last_alloc_frame>>]_vars

\* a mapped address of the second region has been unmapped: its entry was
\* changed and the address invalidated
C31_Witness ==
    /\ frame_last.op = "unmap_page"
    /\ frame_last.ret = 4194304
    /\ 1 \in DOMAIN dir_tables
    /\ dir_tables[1] # NULL
    /\ tlb_log = <<EntryWrite(dir_tables[1], 0), Invlpg(4194304)>>
    /\ page_tables[dir_tables[1]][0].present = 0
    /\ page_tables[dir_tables[1]][0].frame = 5

\* unmap_page has been called on an address whose region has no table
C31_NoTableWitness ==
    /\ frame_last.op = "unmap_page"
    /\ frame_last.ret = 8388608
    /\ 2 \notin DOMAIN dir_tables
    /\ tlb_log = <<>>

-----------------------------------------------------------------------------
(* Claims about the result of alloc_frame, checked under SpecFrame *)

\* every frame's bit is set in the bitmap
BitmapFull == \A i \in 0 .. (total_frames - 1) : test_bit(frame_bitmap, i)

\* the step is one alloc_frame call
AllocFrameStep == frame_last'.op = "alloc_frame" /\ frame_calls' = frame_calls + 1

\* C32: alloc_frame returns the null value if and only if every frame's bit is
\* set in the bitmap; when it returns null the bitmap and used_frames are
\* unchanged, and every successful allocation (any frame index, starting from
\* the first call after paging_init) returns a value the caller can tell apart
\* from that failure value.
C32_NullOnlyWhenFull ==
    [][AllocFrameStep
       => /\ (frame_last'.ret = NULL) <=> BitmapFull
          /\ frame_last'.ret = NULL => UNCHANGED <<frame_bitmap, used_frames>>
          /\ frame_last'.found => frame_last'.ret # NULL]_vars

\* the same for the pass itself: it ends without a frame if and only if every
\* bit is set, and then changes nothing; a frame other than frame 0 is
\* returned as a non-null address
C32_FailsOnlyWhenFull ==
    [][AllocFrameStep
       => /\ (~frame_last'.found) <=> BitmapFull
          /\ ~frame_last'.found
                => frame_last'.ret = NULL /\ UNCHANGED <<frame_bitmap, used_frames>>
          /\ (frame_last'.found /\ last_alloc_frame' # 0) => frame_last'.ret # NULL]_vars

\* alloc_frame has failed on a full bitmap
C32_FullWitness ==
    frame_last.op = "alloc_frame" /\ ~frame_last.found /\ used_frames = total_frames

-----------------------------------------------------------------------------
(* Claims about the usage statistics, checked under SpecFit *)

\* the sum of the payload sizes of the blocks marked used
RECURSIVE UsedBytesFrom(_, _)
UsedBytesFrom(m, block) ==
    IF block = NULL THEN 0
    ELSE (IF B_used(m, block) # 0 THEN B_size(m, block) ELSE 0)
             + UsedBytesFrom(m, B_next(m, block))

UsedBytes == UsedBytesFrom(mem, heap_head)

\* C33: whenever no kmalloc or kfree call is in progress, mem_stats.current_usage
\* equals the sum of the payload sizes of all blocks currently marked used,
\* including blocks that were handed out without splitting; it is 0 when no
\* allocation is live and never wraps below zero, and peak_usage is never
\* smaller than current_usage.
C33_UsageIsUsedPayload ==
    Running
    => /\ mem_stats.current_usage = UsedBytes
       /\ live = {} => mem_stats.current_usage = 0
       /\ mem_stats.current_usage >= 0
       /\ UGe(mem_stats.peak_usage, mem_stats.current_usage)

\* what the two calls do to the counter: kmalloc adds the rounded request,
\* kfree subtracts the payload size of the block, and peak_usage follows a rise
C33_UsageSteps ==
    [][/\ \A size \in FitSizes :
             (KmallocFit(size) /\ last'.ret # NULL /\ panic_msg' = "")
             => /\ mem_stats'.current_usage = Add32(mem_stats.current_usage, RoundSize(size))
                /\ UGe(mem_stats'.peak_usage, mem_stats'.current_usage)
       /\ \A p \in live :
             (Kfree(p) /\ panic_msg' = "")
             => mem_stats'.current_usage
                    = Sub32(mem_stats.current_usage, B_size(mem, Sub32(p, HEAP_HDR)))]_vars


\* every block has been freed and the counter stands at 0xFFFFFFD8
C33_WrappedWitness ==
    Running /\ live = {} /\ mem_stats.total_frees = 3 /\ mem_stats.current_usage = -40

-----------------------------------------------------------------------------
(* Claims about a kmalloc call interrupted after its scan, checked under    *)
(* SpecPreempt                                                              *)

\* the payloads of two calls overlap: [p, p + size) and [q, q + other)
Overlap(p, size, q, other) == p < q + other /\ q < p + size

\* C34: when a kmalloc call is preempted between selecting its best-fit block
\* and marking it used (for example by an interrupt handler that itself calls
\* kmalloc to completion), there is an interleaving in which both calls return
\* the same or overlapping payloads or the block chain loses its tiling of the
\* arena: whenever the handler has taken the block the suspended call had
\* selected, the resumed call returns that block's payload a second time.
C34_ResumedCallReturnsTakenBlock ==
    [][(KmallocResume /\ panic_msg' = "" /\ B_used(mem, in_progress.best_fit) # 0)
       => /\ last'.ret = Add32(in_progress.best_fit, HEAP_HDR)
          /\ last'.ret \in live
          /\ Overlap(last'.ret, in_progress.size, last'.ret, MIN_ALLOC)]_vars

\* both calls have returned the same payload
C34_Witness ==
    /\ Running
    /\ in_progress.pc = "idle"
    /\ in_progress.shared
    /\ last.ret = Add32(in_progress.best_fit, HEAP_HDR)
    /\ mem_stats.total_allocations = 2
    /\ Cardinality(live) = 1

-----------------------------------------------------------------------------
(* Claims about kmem_cache_alloc interrupted around cache_grow, checked     *)
(* under SpecInterrupted                                                    *)

\* the step takes the suspended call from the second spin_lock to its return
RelockStep == in_progress.pc = "grown" /\ in_progress'.pc # "grown"

\* the slab classification of C7 in the state after the step
ClassifiedAfter ==
    \A sl \in slabs_made' :
        IF Rd32(mem', sl + S_INUSE) = 0
        THEN OnList(cachep'.slabs_free, sl) /\ OffList(cachep'.slabs_full, sl)
                /\ OffList(cachep'.slabs_partial, sl)
        ELSE IF Rd32(mem', sl + S_INUSE) = cachep'.num
        THEN OnList(cachep'.slabs_full, sl) /\ OffList(cachep'.slabs_free, sl)
                /\ OffList(cachep'.slabs_partial, sl)
        ELSE OnList(cachep'.slabs_partial, sl) /\ OffList(cachep'.slabs_free, sl)
                /\ OffList(cachep'.slabs_full, sl)

\* C35: under any interleaving of two callers of kmem_cache_alloc and
\* kmem_cache_free on the same cache, the slab from which kmem_cache_alloc pops
\* an object after growing the cache is a real slab that is on that cache's
\* free list at that moment (the free list is never empty when its first entry
\* is taken after the lock is re-acquired), and the slab classification
\* invariant still holds.
C35_FreeListHoldsGrownSlab ==
    [][/\ RelockStep
            => /\ ~list_empty(cachep.slabs_free)
               /\ slab_last'.slab \in slabs_made
               /\ OnList(cachep.slabs_free, slab_last'.slab)
       /\ panic_msg' = "" => ClassifiedAfter]_vars

\* the same for the calls that no other call has come between cache_grow and
\* the second spin_lock of
C35_WhenNotInterruptedAfterGrow ==
    [][/\ (RelockStep /\ slab_last.op = "grow")
            => /\ ~list_empty(cachep.slabs_free)
               /\ slab_last'.slab \in slabs_made
               /\ OnList(cachep.slabs_free, slab_last'.slab)
       /\ (panic_msg' = "" /\ in_progress'.pc # "lost") => ClassifiedAfter]_vars


-----------------------------------------------------------------------------
(* Claims about the lock and the life of a cache, checked under SpecLifecycle *)

\* C36: with one thread and no interrupt re-entry, every kmem_cache_create,
\* kmem_cache_alloc, kmem_cache_free, kmem_cache_destroy, bulk and
\* slab_debug_info call that does not panic returns with cache_chain_lock
\* released, and none of them tried to take the lock while holding it.
C36_LockReleasedOnReturn ==
    panic_msg = "" => /\ cache_chain_lock.lock = 0
                      /\ ~cache_chain_lock.spin

\* a cache that has had slabs was destroyed without a panic
C36_Witness ==
    /\ panic_msg = ""
    /\ slab_last.op = "destroy"
    /\ slab_last.slab > 0
    /\ cache_chain_lock = Unlocked


-----------------------------------------------------------------------------
(* Claims about the slab a cache grows by, checked under SpecSlab *)

\* the slots of slab sl after the step, in address order
SlotsInOrder(sl) ==
    [i \in 1 .. cachep.num |-> Rd32(mem', sl + S_MEM) + (i - 1) * cachep.object_size]

\* the step is a kmem_cache_alloc that grew the cache by slab sl and returned
\* its first object: that object followed by the free list the slab is left
\* with are the num slots of the slab, each once, and the list ends at null
GrownSlabListsEverySlot(sl) ==
    <<slab_last'.ret>> \o FreeListOf(sl)' = SlotsInOrder(sl)

\* the step is a kmem_cache_alloc call of the caller (the only call counted)
AllocStep == cache_calls' = cache_calls + 1

\* C37: for a cache created with the poisoning flag, the embedded free list of
\* a slab produced by cache growth visits each of the cache's num slots
\* exactly once and ends at null.
C37_PoisonedSlabListsEverySlot ==
    [][(AllocStep /\ HasFlag(cachep.flags, SLAB_POISON) /\ panic_msg' = "")
          => \A sl \in SlabsOf(cachep') \ slabs_made : GrownSlabListsEverySlot(sl)]_vars

\* the same, for caches created without the poisoning flag
C37_UnpoisonedSlabListsEverySlot ==
    [][(AllocStep /\ ~HasFlag(cachep.flags, SLAB_POISON)
              /\ ~HasFlag(cachep.flags, SLAB_HWCACHE_ALIGN) /\ panic_msg' = "")
          => \A sl \in SlabsOf(cachep') \ slabs_made : GrownSlabListsEverySlot(sl)]_vars


-----------------------------------------------------------------------------
(* Claims about the objects a slab is given, checked under SpecCreate *)

\* the bytes of a slab of cache c up to the end of its last slot
SlotsEnd(c) == SLAB_HDR + c.colour_off + c.num * c.object_size

\* C38: for every cache that kmem_cache_create returns, with or without the
\* cache-line-alignment flag, the slab header, the colour offset and the num
\* slots together do not exceed PAGE_SIZE << gfporder, so that every slot lies
\* inside the slab's memory.
C38_SlotsInsideSlab ==
    cachep.addr # NULL => SlotsEnd(cachep) <= PAGE_SIZE * ShiftLeftOne(cachep.gfporder)

\* the same, for caches created without the cache-line-alignment flag
C38_SlotsInsideSlabWithoutFlag ==
    (cachep.addr # NULL /\ ~HasFlag(cachep.flags, SLAB_HWCACHE_ALIGN))
        => SlotsEnd(cachep) <= PAGE_SIZE * ShiftLeftOne(cachep.gfporder)

\* caches of both kinds have been created
C38_CreatedWitness ==
    /\ cachep.addr # NULL
    /\ ~HasFlag(cachep.flags, SLAB_HWCACHE_ALIGN)
    /\ Len(cache_chain) = MaxCaches


\* free bytes that hold the twelve descriptors many times over
EnoughForClasses == KERNEL_HEAP_SIZE \div 2

\* the step is a slab_init call
SlabInitStep == slab_last.op # "slab_init" /\ slab_last'.op = "slab_init"

\* C39: given a heap with enough free space, slab_init returns without a
\* panic and leaves all 12 entries of kmalloc_caches (size classes 8, 16, ...,
\* 16384) pointing to created caches.
C39_SlabInitCreatesEveryClass ==
    [][(SlabInitStep /\ FreeBytes(HeapState) >= EnoughForClasses)
          => /\ panic_msg' = ""
             /\ \A i \in DOMAIN kmalloc_caches' : kmalloc_caches'[i].addr # NULL]_vars

\* what slab_init does on such a heap: the classes up to KMALLOC_MAX_SIZE are
\* created, and the call halts on the class above it
C39_SlabInitHaltsOnLastClass ==
    [][(SlabInitStep /\ FreeBytes(HeapState) >= EnoughForClasses)
          => /\ panic_msg' = "Failed to create kmalloc cache"
             /\ \A i \in DOMAIN kmalloc_caches' :
                   (kmalloc_caches'[i].addr # NULL) <=> kmalloc_sizes[i + 1] <= KMALLOC_MAX_SIZE
             /\ Len(cache_chain') = KMALLOC_CLASSES - 1]_vars


\* the step is a kmem_cache_destroy call on the cache of the caller
DestroyStep == cachep.addr # NULL /\ slab_last'.op = "destroy"

\* the cache is off the chain, no call has halted, and the heap has the free
\* bytes it had before kmem_cache_create: every slab and the descriptor are
\* free again
DestroyedAndReleased ==
    /\ panic_msg' = ""
    /\ ~OnList(cache_chain', cachep.addr)
    /\ FreeBytesFrom(mem', heap_head') = InitialFreeBytes

\* C40: kmem_cache_create followed by any number of kmem_cache_alloc and
\* kmem_cache_free calls on that cache and then kmem_cache_destroy, with no
\* other heap activity, removes the cache from the cache chain, releases every
\* slab and the descriptor, and returns the heap's free bytes to their value
\* before the create.
C40_DestroyRestoresHeap ==
    [][DestroyStep => DestroyedAndReleased]_vars

\* the same, for the kmem_cache_destroy calls that return
C40_ReturningDestroyRestoresHeap ==
    [][(DestroyStep /\ panic_msg' = "") => DestroyedAndReleased]_vars

\* a cache with a full slab, a partial slab and live objects was destroyed
C40_Witness ==
    /\ panic_msg = ""
    /\ slab_last.op = "destroy"
    /\ slab_last.slab > 1
    /\ cachep.addr = NULL
    /\ cache_chain = <<>>
    /\ FreeBytes(HeapState) = InitialFreeBytes

=============================================================================
